---- MODULE Spec2Model ----
(***************************************************************************)
(* Model of the Sentinel update-detection pipeline:                        *)
(*   handlers/base_handler.py  compare_with_stored                         *)
(*   handlers/*_handler.py     fetch_current_timestamp of each variant     *)
(*   core/state_manager.py     StateManager over a JSON state document     *)
(*   core/registry.py          SourceRegistry.get_source / get_handler     *)
(*   core/sentinel.py          Sentinel.check_for_updates / check_all      *)
(*                                                                         *)
(* Values.  An optional value is a sequence: <<>> is Python's None and     *)
(* <<x>> is the value x.  A datetime is a record [t, tz]: t the wall-clock *)
(* reading in seconds past a base instant, tz "utc" for an offset-aware    *)
(* datetime (offset +00:00) and "naive" for one without tzinfo.  Text is a *)
(* sequence of string tokens.  A JSON value is a tagged record [k, v].     *)
(* The outcome of a call is a record whose field exc is "none" when the    *)
(* call returned and the exception's class name when it raised.            *)
(***************************************************************************)
EXTENDS Integers, Sequences, FiniteSets, TLC

VARIABLES
    state,    \* StateManager._state: the in-memory JSON document
    disk,     \* the state file: <<>> when missing, <<doc>> when present
    now,      \* the wall clock read by datetime.now()
    last,     \* the last public call: what was called and what came back
    batch,    \* the running check_all_sources call, if any
    updated,  \* history: the ids update_timestamp has been completed for
    threads,  \* StateManager._lock and the threads calling the StateManager
    fs        \* the file system and the path of the state file: "ok", "readonly"
              \* when writing the file fails, "bare" when writes are accepted and
              \* state_file is a bare file name

vars == <<state, disk, now, last, batch, updated, threads, fs>>

------------------------------------------------------------------------------
(* Bounds of the model *)

\* datetimes read t in 0..MaxT
MaxT == 1
\* the clock runs from 0 to MaxClock: at most MaxClock timed calls per behaviour
MaxClock == 2

------------------------------------------------------------------------------
(* Optional values, text, datetimes *)

NoneV == <<>>
Some(x) == <<x>>
IsNone(o) == Len(o) = 0
Get(o) == o[1]

Digits == <<"0", "1", "2", "3", "4", "5", "6", "7", "8", "9", "10", "11", "12">>
DigitStr(n) == Digits[n + 1]
DigitStrs == {Digits[i] : i \in 1..Len(Digits)}
DigitVal(s) == CHOOSE n \in 0..(Len(Digits) - 1) : Digits[n + 1] = s

TValues == 0..MaxT
Instants == [t : TValues, tz : {"naive", "utc"}]
OptInstants == {NoneV} \cup {Some(i) : i \in Instants}

\* a call that returned v / a call that raised exception class e
Ret(v) == [exc |-> "none", val |-> v]
Raise(e) == [exc |-> e, val |-> NoneV]

------------------------------------------------------------------------------
(* datetime.isoformat / str.replace / datetime.fromisoformat *)

\* "2025-01-15T10:30:0t" and, for an aware datetime, the suffix "+00:00"
isoformat(dt) ==
    <<"dt", DigitStr(dt.t)>> \o (IF dt.tz = "utc" THEN <<"+00:00">> ELSE <<>>)

\* timestamp_str.replace('Z', '+00:00')
RECURSIVE replaceZ(_)
replaceZ(text) ==
    IF text = <<>> THEN <<>>
    ELSE <<(IF Head(text) = "Z" THEN "+00:00" ELSE Head(text))>> \o replaceZ(Tail(text))

\* datetime.fromisoformat: ValueError unless the text is an ISO date-time,
\* optionally followed by a UTC offset
fromisoformat(text) ==
    IF Len(text) = 2 /\ text[1] = "dt" /\ text[2] \in DigitStrs
    THEN Ret(Some([t |-> DigitVal(text[2]), tz |-> "naive"]))
    ELSE IF Len(text) = 3 /\ text[1] = "dt" /\ text[2] \in DigitStrs /\ text[3] = "+00:00"
    THEN Ret(Some([t |-> DigitVal(text[2]), tz |-> "utc"]))
    ELSE Raise("ValueError")

\* email.utils.parsedate_to_datetime: an RFC 2822 date with zone "-0000" (or no
\* zone) gives a naive datetime, any other zone an aware one; other text is a
\* ValueError
parsedate_to_datetime(text) ==
    IF Len(text) = 3 /\ text[1] = "rfc" /\ text[2] \in DigitStrs /\ text[3] \in {"GMT", "-0000"}
    THEN Ret(Some([t |-> DigitVal(text[2]),
                   tz |-> IF text[3] = "-0000" THEN "naive" ELSE "utc"]))
    ELSE Raise("ValueError")

\* the RFC 2822 text of a datetime, as a server sends it
rfcText(dt) == <<"rfc", DigitStr(dt.t), IF dt.tz = "utc" THEN "GMT" ELSE "-0000">>

------------------------------------------------------------------------------
(* BaseHandler.compare_with_stored *)

\* datetime.__gt__: TypeError between an offset-naive and an offset-aware value
datetimeGt(a, b) ==
    IF a.tz # b.tz THEN Raise("TypeError") ELSE Ret(a.t > b.t)

\* mutant: a fetch without a timestamp counts as a change
compare_with_stored_noneChanged(current, stored) ==
    IF IsNone(current) THEN Ret(TRUE)
    ELSE IF IsNone(stored) THEN Ret(TRUE)
    ELSE datetimeGt(Get(current), Get(stored))

\* mutant: an equal instant counts as a change
compare_with_stored_ge(current, stored) ==
    IF IsNone(current) THEN Ret(FALSE)
    ELSE IF IsNone(stored) THEN Ret(TRUE)
    ELSE IF Get(current).tz # Get(stored).tz THEN Raise("TypeError")
    ELSE Ret(Get(current).t >= Get(stored).t)

\* BaseHandler.compare_with_stored: [exc, val]
compare_with_stored(current, stored) ==
    IF IsNone(current) THEN Ret(FALSE)
    ELSE IF IsNone(stored) THEN Ret(TRUE)
    ELSE datetimeGt(Get(current), Get(stored))

------------------------------------------------------------------------------
(* JSON values: what json.load gives and json.dump writes *)

JObj(f) == [k |-> "obj", v |-> f]
JStr(text) == [k |-> "str", v |-> text]
JNum(n) == [k |-> "num", v |-> n]
JList(s) == [k |-> "list", v |-> s]
JNull == [k |-> "null", v |-> <<>>]

EmptyDict == [x \in {} |-> JNull]
EmptyObj == JObj(EmptyDict)

\* Python truthiness of a JSON value: "if x:"
truthy(j) ==
    CASE j.k = "obj" -> DOMAIN j.v # {}
      [] j.k = "str" -> Len(j.v) > 0
      [] j.k = "num" -> j.v # 0
      [] j.k = "list" -> Len(j.v) > 0
      [] OTHER -> FALSE

\* truthiness of an optional text argument: None and "" are false
truthyText(o) == ~IsNone(o) /\ Len(Get(o)) > 0

\* dict.get(key, default)
dictGet(d, key, default) == IF key \in DOMAIN d THEN d[key] ELSE default

\* d[key] = value
dictSet(d, key, value) == [x \in DOMAIN d \cup {key} |-> IF x = key THEN value ELSE d[x]]

\* del d[key]
dictDel(d, key) == [x \in DOMAIN d \ {key} |-> d[x]]

------------------------------------------------------------------------------
(* StateManager *)

\* the content of a state file that is not valid JSON
Corrupt == [k |-> "corrupt", v |-> <<>>]

\* the content of a state file that is not UTF-8 text
Undecodable == [k |-> "undecodable", v |-> <<>>]

\* the exception _load_state lets through: json.load on a file opened with
\* encoding='utf-8' raises UnicodeDecodeError, which is neither a
\* JSONDecodeError nor an IOError
loadRaises(file) ==
    IF ~IsNone(file) /\ Get(file).k = "undecodable" THEN "UnicodeDecodeError" ELSE "none"

\* _load_state: the document of the file; {} when the file is missing or
\* json.load raises JSONDecodeError
_load_state(file) ==
    IF IsNone(file) THEN EmptyObj
    ELSE IF Get(file).k = "corrupt" THEN EmptyObj
    ELSE Get(file)

\* _save_state: rewrites the whole document; an IOError is caught and the file
\* is left as it was
_save_state(st, file, writable) == IF writable THEN Some(st) ELSE file

get_last_timestamp(st, dcid) ==
    IF st.k # "obj" THEN Raise("AttributeError")
    ELSE LET source_state == dictGet(st.v, dcid, EmptyObj) IN
    IF source_state.k # "obj" THEN Raise("AttributeError")
    ELSE LET timestamp_str == dictGet(source_state.v, "timestamp", JNull) IN
    IF ~truthy(timestamp_str) THEN Ret(NoneV)
    ELSE IF timestamp_str.k # "str" THEN Ret(NoneV)   \* AttributeError, caught
    ELSE LET r == fromisoformat(replaceZ(timestamp_str.v)) IN
         IF r.exc \in {"ValueError", "AttributeError"} THEN Ret(NoneV) ELSE r

\* mutant: the entry is replaced, not merged
updatedEntry_replaces(entry, timestamp, raw_value, etag, clock) ==
    LET e1 == dictSet(EmptyDict, "timestamp", JStr(isoformat(timestamp)))
        e2 == dictSet(e1, "last_check", JStr(isoformat([t |-> clock, tz |-> "naive"])))
        e3 == IF truthyText(raw_value) THEN dictSet(e2, "raw_value", JStr(Get(raw_value))) ELSE e2
        e4 == IF truthyText(etag) THEN dictSet(e3, "etag", JStr(Get(etag))) ELSE e3
    IN e4

\* mutant: the timestamp of an existing entry is kept
updatedEntry_keepsTimestamp(entry, timestamp, raw_value, etag, clock) ==
    LET e1 == IF "timestamp" \in DOMAIN entry THEN entry
              ELSE dictSet(entry, "timestamp", JStr(isoformat(timestamp)))
    IN dictSet(e1, "last_check", JStr(isoformat([t |-> clock, tz |-> "naive"])))

\* the entry of dcid after the assignments of update_timestamp
updatedEntry(entry, timestamp, raw_value, etag, clock) ==
    LET e1 == dictSet(entry, "timestamp", JStr(isoformat(timestamp)))
        e2 == dictSet(e1, "last_check", JStr(isoformat([t |-> clock, tz |-> "naive"])))
        e3 == IF truthyText(raw_value) THEN dictSet(e2, "raw_value", JStr(Get(raw_value))) ELSE e2
        e4 == IF truthyText(etag) THEN dictSet(e3, "etag", JStr(Get(etag))) ELSE e3
    IN e4

\* update_timestamp: [exc, st], st the document afterwards
update_timestamp(st, dcid, timestamp, raw_value, etag, clock) ==
    IF st.k # "obj" THEN [exc |-> "TypeError", st |-> st]
    ELSE LET created == IF dcid \notin DOMAIN st.v THEN EmptyObj ELSE st.v[dcid] IN
    IF created.k # "obj" THEN [exc |-> "TypeError", st |-> st]
    ELSE [exc |-> "none",
          st |-> JObj(dictSet(st.v, dcid,
                              JObj(updatedEntry(created.v, timestamp, raw_value, etag, clock))))]

\* get_state: self._state.get(dcid)
get_state(st, dcid) ==
    IF st.k # "obj" THEN Raise("AttributeError")
    ELSE Ret(IF dcid \in DOMAIN st.v THEN Some(st.v[dcid]) ELSE NoneV)

\* "dcid in self._state" for each kind of root
rootHas(st, dcid) ==
    CASE st.k = "obj" -> Ret(dcid \in DOMAIN st.v)
      [] st.k = "list" -> Ret(\E i \in 1..Len(st.v) : st.v[i].k = "str" /\ st.v[i].v = <<dcid>>)
      [] st.k = "str" -> Ret(st.v = <<dcid>>)
      [] OTHER -> Raise("TypeError")

\* clear_state: [exc, st, saved]
clear_state(st, dcid) ==
    LET has == rootHas(st, dcid) IN
    IF has.exc # "none" THEN [exc |-> has.exc, st |-> st, saved |-> FALSE]
    ELSE IF ~has.val THEN [exc |-> "none", st |-> st, saved |-> FALSE]
    ELSE IF st.k = "obj" THEN [exc |-> "none", st |-> JObj(dictDel(st.v, dcid)), saved |-> TRUE]
    ELSE [exc |-> "TypeError", st |-> st, saved |-> FALSE]

\* clear_all: self._state = {}
clear_all(st) == EmptyObj

------------------------------------------------------------------------------
(* Handlers: fetch_current_timestamp.  The outcome of a fetch is a record  *)
(* [exc, ts, raw, etag]: ts the returned datetime (<<>> for None), raw the *)
(* handler's _raw_timestamp and etag its _etag after the call.             *)

\* settings http.max_retries, default
DefaultMaxRetries == 3

Fetched(ts, raw, etag) ==
    [exc |-> "none", ts |-> ts, raw |-> raw, etag |-> etag, log |-> "none"]
FetchRaised(e, raw) ==
    [exc |-> e, ts |-> NoneV, raw |-> raw, etag |-> NoneV, log |-> "none"]
\* the outcome o, the handler having logged msg at error or warning level
Logged(o, msg) == [o EXCEPT !.log = msg]
\* "return None" after self.logger.error / self.handle_error
NoneLogged(msg) == Logged(Fetched(NoneV, NoneV, NoneV), msg)

\* mutant: an ETag stands in for the timestamp, the Date header is not read
\* when the response carries one
HTTPResponse_etagEndsCascade(resp) ==
    LET lm == resp.last_modified
        lmParsed == IF truthyText(lm) THEN parsedate_to_datetime(Get(lm)) ELSE Raise("absent")
        raw1 == IF truthyText(lm) THEN lm ELSE NoneV
        dateParsed == IF truthyText(resp.date) THEN parsedate_to_datetime(Get(resp.date))
                      ELSE Raise("absent")
    IN IF lmParsed.exc = "none" THEN Fetched(lmParsed.val, lm, NoneV)
       ELSE IF truthyText(resp.etag) THEN Fetched(NoneV, raw1, resp.etag)
       ELSE IF truthyText(resp.date) /\ dateParsed.exc = "none"
            THEN Fetched(dateParsed.val, resp.date, NoneV)
            ELSE Logged(Fetched(NoneV, IF truthyText(resp.date) THEN resp.date ELSE raw1, NoneV),
                        "no timestamp headers")

\* HTTPHandler: the body of the try block once requests.head has answered and
\* raise_for_status has passed; resp = [last_modified, etag, date], each an
\* optional header text
HTTPResponse(resp) ==
    LET lm == resp.last_modified
        lmParsed == IF truthyText(lm) THEN parsedate_to_datetime(Get(lm)) ELSE Raise("absent")
        raw1 == IF truthyText(lm) THEN lm ELSE NoneV
        etag1 == IF truthyText(resp.etag) THEN resp.etag ELSE NoneV
        dateParsed == IF truthyText(resp.date) THEN parsedate_to_datetime(Get(resp.date))
                      ELSE Raise("absent")
    IN IF lmParsed.exc = "none" THEN Fetched(lmParsed.val, lm, NoneV)
       ELSE IF truthyText(resp.date)
            THEN (IF dateParsed.exc = "none" THEN Fetched(dateParsed.val, resp.date, etag1)
                  ELSE Logged(Fetched(NoneV, resp.date, etag1), "no timestamp headers"))
            ELSE Logged(Fetched(NoneV, raw1, etag1), "no timestamp headers")

\* mutant: the last failed attempt lets its RequestException through
RECURSIVE HTTPAttempts_raisesWhenExhausted(_, _, _)
HTTPAttempts_raisesWhenExhausted(attempt, max_retries, env) ==
    IF attempt >= max_retries THEN Fetched(NoneV, NoneV, NoneV)
    ELSE IF attempt < env.fails
         THEN (IF attempt = max_retries - 1 THEN FetchRaised("RequestException", NoneV)
               ELSE HTTPAttempts_raisesWhenExhausted(attempt + 1, max_retries, env))
         ELSE HTTPResponse(env.resp)

\* the number of requests the loop "for attempt in range(max_retries)" of
\* HTTPHandler, APIHandler and BS4Handler sends when the first fails requests
\* raise a RequestException (no answer, or raise_for_status on an error status)
RECURSIVE requestsSent(_, _, _)
requestsSent(attempt, max_retries, fails) ==
    IF attempt >= max_retries THEN 0
    ELSE IF attempt < fails
         THEN (IF attempt = max_retries - 1 THEN 1
               ELSE 1 + requestsSent(attempt + 1, max_retries, fails))
         ELSE 1

\* HTTPHandler: "for attempt in range(max_retries)"; the first env.fails
\* requests raise a RequestException, the next one answers env.resp
RECURSIVE HTTPAttempts(_, _, _)
HTTPAttempts(attempt, max_retries, env) ==
    IF attempt >= max_retries THEN Fetched(NoneV, NoneV, NoneV)
    ELSE IF attempt < env.fails
         THEN (IF attempt = max_retries - 1 THEN NoneLogged("handle_error")
               ELSE HTTPAttempts(attempt + 1, max_retries, env))
         ELSE HTTPResponse(env.resp)

HTTPFetch(max_retries, env) ==
    IF ~env.has_url THEN NoneLogged("no data_url")
    ELSE HTTPAttempts(0, max_retries, env)

------------------------------------------------------------------------------
(* DateParser.parse, on the texts the handlers of this model meet *)

\* dateutil reads an ISO date-time; a trailing Z or +00:00 makes it aware;
\* text no strategy recognises gives None
DateParser_parse(text) ==
    IF Len(text) = 0 THEN NoneV
    ELSE IF Len(text) = 2 /\ text[1] = "dt" /\ text[2] \in DigitStrs
    THEN Some([t |-> DigitVal(text[2]), tz |-> "naive"])
    ELSE IF Len(text) = 3 /\ text[1] = "dt" /\ text[2] \in DigitStrs /\ text[3] \in {"Z", "+00:00"}
    THEN Some([t |-> DigitVal(text[2]), tz |-> "utc"])
    ELSE NoneV

------------------------------------------------------------------------------
(* APIHandler.  A response body is JSON whose objects keep their key order:*)
(* [k |-> "odict", v |-> <<[key, val], ...>>].  A JSON number is the token *)
(* text of its magnitude: <<"s", d>> the epoch seconds of the datetime     *)
(* reading d, <<"ms", d>> the same instant in milliseconds (above 1e12),   *)
(* <<"0">> zero, <<"1e17">> and <<"1e25">> the numbers so written.         *)

JODict(pairs) == [k |-> "odict", v |-> pairs]
Pair(key, val) == [key |-> key, val |-> val]

truthyBody(j) == IF j.k = "odict" THEN Len(j.v) > 0
                 ELSE IF j.k = "num" THEN j.v # <<"0">>
                 ELSE truthy(j)

\* value > 1e12
above1e12(n) == n[1] \in {"ms", "1e17", "1e25"}

\* datetime.fromtimestamp(x) for x = n or x = n / 1000: local naive time; a
\* year past 9999 is a ValueError, a value past the platform time_t an
\* OverflowError
fromtimestamp(n, divided) ==
    CASE n[1] = "s" -> Ret(Some([t |-> DigitVal(n[2]), tz |-> "naive"]))
      [] n[1] = "ms" -> IF divided THEN Ret(Some([t |-> DigitVal(n[2]), tz |-> "naive"]))
                        ELSE Raise("ValueError")
      [] n[1] = "0" -> Ret(Some([t |-> 0, tz |-> "naive"]))
      [] n[1] = "1e17" -> Raise("ValueError")
      [] OTHER -> Raise("OverflowError")

\* index of the first field of fields that is a key of pairs, 0 if none
firstField(pairs, fields) ==
    LET hits == {i \in 1..Len(fields) : \E j \in 1..Len(pairs) : pairs[j].key = fields[i]}
    IN IF hits = {} THEN 0 ELSE CHOOSE i \in hits : \A h \in hits : i <= h

\* data[field]
lookup(pairs, field) ==
    LET j == CHOOSE x \in 1..Len(pairs) : pairs[x].key = field IN pairs[j].val

RECURSIVE _find_timestamp_value(_, _)
RECURSIVE findInValues(_, _, _)
\* "for value in data.values()": the first truthy result of the nested search
findInValues(pairs, i, fields) ==
    IF i > Len(pairs) THEN JNull
    ELSE LET result == _find_timestamp_value(pairs[i].val, fields) IN
         IF truthyBody(result) THEN result ELSE findInValues(pairs, i + 1, fields)

_find_timestamp_value(data, fields) ==
    IF data.k = "odict"
    THEN (IF firstField(data.v, fields) # 0
          THEN lookup(data.v, fields[firstField(data.v, fields)])
          ELSE findInValues(data.v, 1, fields))
    ELSE IF data.k = "list" /\ Len(data.v) > 0
    THEN _find_timestamp_value(data.v[1], fields)
    ELSE JNull

\* _parse_timestamp_value: only ValueError and OSError are caught
_parse_timestamp_value(value) ==
    IF value.k = "num"
    THEN LET r == fromtimestamp(value.v, above1e12(value.v)) IN
         IF r.exc \in {"ValueError", "OSError"} THEN Ret(NoneV) ELSE r
    ELSE IF value.k = "str" THEN Ret(DateParser_parse(value.v))
    ELSE Ret(NoneV)

\* str(timestamp_value), kept as _raw_timestamp
strOf(value) == IF value.k \in {"num", "str"} THEN Some(value.v) ELSE Some(<<"repr">>)

\* _parse_json_response: body is <<>> when json.loads raises JSONDecodeError
_parse_json_response(body, timestamp_field, fallback_fields) ==
    IF IsNone(body) THEN NoneLogged("failed to parse JSON")
    ELSE LET timestamp_value ==
                 _find_timestamp_value(Get(body), <<timestamp_field>> \o fallback_fields)
         IN IF truthyBody(timestamp_value)
            THEN LET r == _parse_timestamp_value(timestamp_value) IN
                 IF r.exc = "none" THEN Fetched(r.val, strOf(timestamp_value), NoneV)
                 ELSE FetchRaised(r.exc, strOf(timestamp_value))
            ELSE NoneLogged("no timestamp field")

RECURSIVE APIAttempts(_, _, _)
APIAttempts(attempt, max_retries, env) ==
    IF attempt >= max_retries THEN Fetched(NoneV, NoneV, NoneV)
    ELSE IF attempt < env.fails
         THEN (IF attempt = max_retries - 1 THEN NoneLogged("handle_error")
               ELSE APIAttempts(attempt + 1, max_retries, env))
         ELSE _parse_json_response(env.body, env.timestamp_field, env.fallback_fields)

APIFetch(max_retries, env) ==
    IF ~env.has_url THEN NoneLogged("no data_url")
    ELSE APIAttempts(0, max_retries, env)

------------------------------------------------------------------------------
(* CLIHandler *)

\* line.lower(), on the header names of this model
lower(name) ==
    CASE name = "Last-Modified" -> "last-modified"
      [] name = "LAST-MODIFIED" -> "last-modified"
      [] name = "Date" -> "date"
      [] OTHER -> name

\* index of the first line whose lowered name is name, 0 if none
firstLine(lines, name) ==
    LET hits == {i \in 1..Len(lines) : lower(lines[i].name) = name}
    IN IF hits = {} THEN 0 ELSE CHOOSE i \in hits : \A h \in hits : i <= h

\* the value of a header line: parsedate_to_datetime, and DateParser.parse
\* when that raises
headerLineValue(value) ==
    LET r == parsedate_to_datetime(value) IN
    IF r.exc = "none" THEN Fetched(r.val, Some(value), NoneV)
    ELSE Fetched(DateParser_parse(value), Some(value), NoneV)

\* _parse_headers: lines is the output split at newlines, each line
\* [name, value]
_parse_headers(lines) ==
    IF firstLine(lines, "last-modified") # 0
    THEN headerLineValue(lines[firstLine(lines, "last-modified")].value)
    ELSE IF firstLine(lines, "date") # 0
    THEN headerLineValue(lines[firstLine(lines, "date")].value)
    ELSE NoneLogged("no timestamp headers")

\* env.run: what subprocess.run does: "ok", "nonzero" (a return code other
\* than 0), "TimeoutExpired", or another exception
CLIFetch(env) ==
    IF ~env.has_url THEN NoneLogged("no data_url")
    ELSE IF env.run = "TimeoutExpired" THEN NoneLogged("command timed out")
    ELSE IF env.run = "nonzero" THEN NoneLogged("command failed")
    ELSE IF env.run # "ok" THEN NoneLogged("handle_error")
    ELSE _parse_headers(env.stdout)

------------------------------------------------------------------------------
(* BS4Handler *)

\* one stage of the cascade: the text the stage finds, parsed
stageParse(found) ==
    IF truthyText(found) /\ ~IsNone(DateParser_parse(Get(found)))
    THEN Fetched(DateParser_parse(Get(found)), found, NoneV)
    ELSE Fetched(NoneV, NoneV, NoneV)

\* _extract_timestamp: selectors, common elements, meta tags, patterns; page
\* gives the text each stage finds
_extract_timestamp(page) ==
    IF ~IsNone(stageParse(page.by_selectors).ts) THEN stageParse(page.by_selectors)
    ELSE IF ~IsNone(stageParse(page.common_elements).ts) THEN stageParse(page.common_elements)
    ELSE IF ~IsNone(stageParse(page.meta_tags).ts) THEN stageParse(page.meta_tags)
    ELSE IF ~IsNone(stageParse(page.patterns).ts) THEN stageParse(page.patterns)
    ELSE NoneLogged("no timestamp found")

RECURSIVE BS4Attempts(_, _, _)
BS4Attempts(attempt, max_retries, env) ==
    IF attempt >= max_retries THEN Fetched(NoneV, NoneV, NoneV)
    ELSE IF attempt < env.fails
         THEN (IF attempt = max_retries - 1 THEN NoneLogged("handle_error")
               ELSE BS4Attempts(attempt + 1, max_retries, env))
         ELSE _extract_timestamp(env.page)

BS4Fetch(max_retries, env) ==
    IF ~env.has_url THEN NoneLogged("no data_url")
    ELSE IF ~env.bs4_installed THEN NoneLogged("BeautifulSoup not installed")
    ELSE BS4Attempts(0, max_retries, env)

------------------------------------------------------------------------------
(* SeleniumHandler.  Each step of the session ends "ok" or raises the      *)
(* exception class named: "TimeoutException", "WebDriverException", or     *)
(* "Exception" for any class outside selenium's.                           *)

\* the except clauses of fetch_current_timestamp: TimeoutException and
\* WebDriverException are caught, every other class propagates
seleniumExcept(e) ==
    IF e = "TimeoutException" THEN NoneLogged("timeout loading page")
    ELSE IF e = "WebDriverException" THEN NoneLogged("handle_error")
    ELSE FetchRaised(e, NoneV)

\* the finally clause once driver is set: driver.quit(), whose exception
\* replaces the outcome of the try statement
seleniumFinally(o, quit) == IF quit = "ok" THEN o ELSE FetchRaised(quit, o.raw)

\* _find_timestamp_on_page, then _search_page_for_date; both catch Exception
seleniumPage(env) ==
    IF truthyText(env.selector_text) /\ ~IsNone(DateParser_parse(Get(env.selector_text)))
    THEN Fetched(DateParser_parse(Get(env.selector_text)), env.selector_text, NoneV)
    ELSE IF truthyText(env.pattern_text)
    THEN (IF ~IsNone(DateParser_parse(Get(env.pattern_text)))
          THEN Fetched(DateParser_parse(Get(env.pattern_text)), env.pattern_text, NoneV)
          ELSE Logged(Fetched(NoneV, env.pattern_text, NoneV), "no date pattern found"))
    ELSE NoneLogged("no date pattern found")

SeleniumFetch(env) ==
    IF ~env.has_url THEN NoneLogged("no data_url")
    ELSE IF ~env.selenium_installed THEN NoneLogged("packages not installed")
    ELSE IF env.install # "ok" THEN seleniumExcept(env.install)
    ELSE IF env.chrome # "ok" THEN seleniumExcept(env.chrome)
    ELSE IF env.get # "ok" THEN seleniumFinally(seleniumExcept(env.get), env.quit)
    ELSE IF env.wait # "ok" THEN seleniumFinally(seleniumExcept(env.wait), env.quit)
    ELSE seleniumFinally(seleniumPage(env), env.quit)

------------------------------------------------------------------------------
(* What the network can answer *)

HeaderTexts == {NoneV, Some(<<>>), Some(<<"junk">>)} \cup {Some(rfcText(i)) : i \in Instants}
ETagTexts == {NoneV, Some(<<"e1">>)}
HTTPNet == [fails : 0..DefaultMaxRetries,
            resp : [last_modified : HeaderTexts, etag : ETagTexts, date : HeaderTexts]]

\* JSON values of several kinds are listed in sequences, not collected in sets
APIValues ==
    [i \in 1..(MaxT + 1) |-> JStr(isoformat([t |-> i - 1, tz |-> "naive"]))]
    \o [i \in 1..(MaxT + 1) |-> JStr(isoformat([t |-> i - 1, tz |-> "utc"]))]
    \o [i \in 1..(MaxT + 1) |-> JStr(<<"dt", DigitStr(i - 1), "Z">>)]
    \o [i \in 1..(MaxT + 1) |-> JNum(<<"s", DigitStr(i - 1)>>)]
    \o [i \in 1..(MaxT + 1) |-> JNum(<<"ms", DigitStr(i - 1)>>)]
    \o <<JNum(<<"0">>), JNum(<<"1e17">>), JNum(<<"1e25">>), JStr(<<"junk">>), JStr(<<>>), JNull>>
\* the places of a value in a body: the primary field, a fallback field, an
\* unrelated field, a nested object, the first element of a list
BodyWith(shape, v) ==
    CASE shape = 1 -> Some(JODict(<<Pair("updated_at", v)>>))
      [] shape = 2 -> Some(JODict(<<Pair("modified", v)>>))
      [] shape = 3 -> Some(JODict(<<Pair("other", v)>>))
      [] shape = 4 -> Some(JODict(<<Pair("data", JODict(<<Pair("updated_at", v)>>))>>))
      [] OTHER -> Some(JList(<<JODict(<<Pair("updated_at", v)>>)>>))
APIBodies ==
    <<NoneV, Some(JODict(<<>>)), Some(JList(<<>>))>>
    \o [i \in 1..(5 * Len(APIValues)) |->
            BodyWith(((i - 1) % 5) + 1, APIValues[((i - 1) \div 5) + 1])]

------------------------------------------------------------------------------
(* SourceRegistry *)

\* sources.yaml, in file order
SourceOrder == <<"s1", "s2", "s3", "s4">>
Sources ==
    [d \in {"s1", "s2", "s3", "s4"} |->
        [import_name |-> d,
         data_url |-> Some(<<"url", d>>),
         method |-> CASE d = "s1" -> Some("api")
                      [] d = "s2" -> Some("http_head")
                      [] d = "s3" -> Some("ftp")
                      [] OTHER -> NoneV,
         timestamp_field |-> "updated_at",
         fallback_fields |-> <<"modified">>]]
\* the ids a caller may pass: the configured ones and one that is not
Dcids == DOMAIN Sources \cup {"s0"}

HANDLER_MAP == {"http_head", "api", "selenium", "beautifulsoup", "cli"}

get_source(dcid) == IF dcid \in DOMAIN Sources THEN Some(Sources[dcid]) ELSE NoneV

\* mutant: an unknown method tag falls back to the HTTP handler
get_handler_default(dcid) ==
    IF dcid \notin DOMAIN Sources THEN NoneV
    ELSE IF IsNone(Sources[dcid].method) THEN NoneV
    ELSE IF Sources[dcid].method[1] \notin HANDLER_MAP THEN Some("http_head")
    ELSE Sources[dcid].method

\* get_handler: the handler class instantiated for dcid, <<>> for None
get_handler(dcid) ==
    LET source_config == get_source(dcid) IN
    IF IsNone(source_config) THEN NoneV
    ELSE LET method == Get(source_config).method IN
    IF IsNone(method) \/ Get(method) = "" THEN NoneV
    ELSE IF Get(method) \notin HANDLER_MAP THEN NoneV
    ELSE method

list_sources == SourceOrder

\* handler.fetch_current_timestamp() of the handler of dcid, for every answer
\* of the network; the single outcome "no handler" when dcid has none
NoFetch == Logged(Fetched(NoneV, NoneV, NoneV), "not called")
FetchOutcomesOf(dcid) ==
    LET handler == get_handler(dcid) IN
    IF IsNone(handler) THEN {NoFetch}
    ELSE LET cfg == Sources[dcid] IN
    CASE Get(handler) = "http_head" ->
            {HTTPFetch(DefaultMaxRetries,
                       [has_url |-> truthyText(cfg.data_url), fails |-> n.fails, resp |-> n.resp])
             : n \in HTTPNet}
      [] Get(handler) = "api" ->
            {APIFetch(DefaultMaxRetries,
                      [has_url |-> truthyText(cfg.data_url), fails |-> n.fails,
                       body |-> APIBodies[n.body],
                       timestamp_field |-> cfg.timestamp_field,
                       fallback_fields |-> cfg.fallback_fields])
             : n \in [fails : 0..DefaultMaxRetries, body : 1..Len(APIBodies)]}
      [] OTHER -> {NoFetch}
FetchOutcomes == [d \in Dcids |-> FetchOutcomesOf(d)]

------------------------------------------------------------------------------
(* Sentinel.check_for_updates *)

\* mutant: the instant just persisted is reported as the previous one
CheckResult_previousIsCurrent(dcid, import_name, method, changed, current, previous, raw, error) ==
    [dcid |-> dcid, import_name |-> import_name, method |-> method, changed |-> changed,
     current_timestamp |-> current,
     previous_timestamp |-> IF IsNone(current) THEN previous ELSE current,
     raw_timestamp |-> raw, error |-> error]

\* CheckResult(...) as check_for_updates constructs it
CheckResult(dcid, import_name, method, changed, current, previous, raw, error) ==
    [dcid |-> dcid, import_name |-> import_name, method |-> method, changed |-> changed,
     current_timestamp |-> current, previous_timestamp |-> previous,
     raw_timestamp |-> raw, error |-> error]

\* CheckResult.status
status(r) == IF truthyText(r.error) THEN "error"
             ELSE IF r.changed THEN "updated" ELSE "unchanged"

NoResult == CheckResult("", NoneV, NoneV, FALSE, NoneV, NoneV, NoneV, NoneV)

\* the call returned res, leaving the document st; fetched: the handler's
\* fetch was invoked; read, wrote: the StateManager was read, updated
Returned(res, st, fetched, read, wrote) ==
    [exc |-> "none", res |-> res, st |-> st, fetched |-> fetched, read |-> read, wrote |-> wrote]
Propagated(e, st, read) ==
    [exc |-> e, res |-> NoResult, st |-> st, fetched |-> TRUE, read |-> read, wrote |-> FALSE]

\* check_for_updates on document st, fetch being what the handler's
\* fetch_current_timestamp does when it is called, clock the time of the call
check_for_updates(st, dcid, fetch, clock) ==
    LET source_config == get_source(dcid) IN
    IF IsNone(source_config)
    THEN Returned(CheckResult(dcid, NoneV, NoneV, FALSE, NoneV, NoneV, NoneV,
                              Some(<<"Source not found", dcid>>)),
                  st, FALSE, FALSE, FALSE)
    ELSE LET cfg == Get(source_config)
             import_name == Some(cfg.import_name)
             method == IF IsNone(cfg.method) THEN Some("") ELSE cfg.method
             handler == get_handler(dcid)
    IN
    IF IsNone(handler)
    THEN Returned(CheckResult(dcid, import_name, method, FALSE, NoneV, NoneV, NoneV,
                              Some(<<"No handler available for", dcid>>)),
                  st, FALSE, FALSE, FALSE)
    ELSE IF fetch.exc # "none"
    THEN Returned(CheckResult(dcid, import_name, method, FALSE, NoneV, NoneV, NoneV,
                              Some(<<fetch.exc>>)),
                  st, TRUE, FALSE, FALSE)
    ELSE LET stored_timestamp == get_last_timestamp(st, dcid) IN
    IF stored_timestamp.exc # "none" THEN Propagated(stored_timestamp.exc, st, TRUE)
    ELSE LET changed == compare_with_stored(fetch.ts, stored_timestamp.val) IN
    IF changed.exc # "none" THEN Propagated(changed.exc, st, TRUE)
    ELSE LET upd == IF ~IsNone(fetch.ts)
                    THEN update_timestamp(st, dcid, Get(fetch.ts), fetch.raw, fetch.etag, clock)
                    ELSE [exc |-> "none", st |-> st]
    IN
    IF upd.exc # "none" THEN Propagated(upd.exc, st, TRUE)
    ELSE Returned(CheckResult(dcid, import_name, method, changed.val, fetch.ts,
                              stored_timestamp.val, fetch.raw, NoneV),
                  upd.st, TRUE, TRUE, ~IsNone(fetch.ts))

------------------------------------------------------------------------------
(* GroqVerifier.  A reply of the service is [kind, obj, text]: kind "raise" *)
(* when the API call raises, "none" when the message has no content,       *)
(* "text" when the content holds no {...}, "badjson" when the {...} is no  *)
(* JSON, "json" when it is the JSON object obj.  Confidences are in        *)
(* hundredths.                                                             *)

JBool(b) == [k |-> "bool", v |-> b]

\* the result dict of verify_timestamp
Verification(is_verified, confidence, reasoning, suggested_timestamp, error) ==
    [is_verified |-> is_verified, confidence |-> confidence, reasoning |-> reasoning,
     suggested_timestamp |-> suggested_timestamp, error |-> error]

\* the dict returned when nothing could be verified
Unknown(reasoning, error) == Verification(JNull, 0, JStr(reasoning), JNull, JStr(error))

\* float(x) of a JSON value: [exc, val]
float(x) ==
    CASE x.k = "num" -> Ret(x.v)
      [] x.k = "bool" -> Ret(IF x.v THEN 100 ELSE 0)
      [] x.k = "str" -> IF Len(x.v) = 1 /\ x.v[1] \in DigitStrs
                        THEN Ret(100 * DigitVal(x.v[1])) ELSE Raise("ValueError")
      [] OTHER -> Raise("TypeError")

\* _parse_response: [exc, val]; re.search on None raises TypeError, float() of
\* the confidence raises ValueError or TypeError, json.JSONDecodeError is caught
_parse_response(reply) ==
    CASE reply.kind = "none" -> Raise("TypeError")
      [] reply.kind = "json" ->
           LET confidence == float(dictGet(reply.obj, "confidence", JNum(0))) IN
           IF confidence.exc # "none" THEN Raise(confidence.exc)
           ELSE Ret(Verification(dictGet(reply.obj, "is_verified", JBool(FALSE)),
                                 confidence.val,
                                 dictGet(reply.obj, "reasoning", JStr(<<>>)),
                                 dictGet(reply.obj, "correct_timestamp", JNull),
                                 JNull))
      [] OTHER -> Ret(Unknown(reply.text, <<"Could not parse structured response">>))

\* verify_timestamp: [exc, val]; client: self.client is set
verify_timestamp(client, reply) ==
    IF ~client
    THEN Ret(Unknown(<<"Groq client not available">>, <<"GROQ_API_KEY not configured">>))
    ELSE IF reply.kind = "raise"
    THEN Ret(Unknown(<<"API call failed">>, <<"APIError">>))
    ELSE LET parsed == _parse_response(reply) IN
         IF parsed.exc # "none"
         THEN Ret(Unknown(<<"API call failed">>, <<parsed.exc>>))
         ELSE parsed

\* one reply
Reply(kind, obj, text) == [kind |-> kind, obj |-> obj, text |-> text]

\* the JSON object with the given fields; a field given as <<>> is left out
ReplyObject(is_verified, confidence, reasoning, correct_timestamp) ==
    LET d1 == IF Len(is_verified) = 0 THEN EmptyDict
              ELSE dictSet(EmptyDict, "is_verified", is_verified[1])
        d2 == IF Len(confidence) = 0 THEN d1 ELSE dictSet(d1, "confidence", confidence[1])
        d3 == IF Len(reasoning) = 0 THEN d2 ELSE dictSet(d2, "reasoning", reasoning[1])
        d4 == IF Len(correct_timestamp) = 0 THEN d3
              ELSE dictSet(d3, "correct_timestamp", correct_timestamp[1])
    IN d4

\* the replies of the service
Replies ==
    <<Reply("raise", EmptyDict, <<>>),
      Reply("none", EmptyDict, <<>>),
      Reply("text", EmptyDict, <<"looks", "right">>),
      Reply("text", EmptyDict, <<>>),
      Reply("badjson", EmptyDict, <<"{", "is_verified", "}">>),
      Reply("json", ReplyObject(<<JBool(TRUE)>>, <<JNum(90)>>, <<JStr(<<"ok">>)>>, <<JNull>>), <<>>),
      Reply("json", ReplyObject(<<JBool(FALSE)>>, <<JNum(90)>>, <<JStr(<<"stale">>)>>,
                                <<JStr(<<"dt", "1">>)>>), <<>>),
      Reply("json", ReplyObject(<<>>, <<JNum(90)>>, <<JStr(<<"ok">>)>>, <<>>), <<>>),
      Reply("json", ReplyObject(<<JBool(TRUE)>>, <<JStr(<<"high">>)>>, <<JStr(<<"ok">>)>>, <<>>), <<>>),
      Reply("json", ReplyObject(<<JBool(TRUE)>>, <<JStr(<<"1">>)>>, <<>>, <<>>), <<>>),
      Reply("json", ReplyObject(<<JBool(TRUE)>>, <<JNull>>, <<JStr(<<"ok">>)>>, <<>>), <<>>),
      Reply("json", ReplyObject(<<JBool(TRUE)>>, <<>>, <<JStr(<<"ok">>)>>, <<>>), <<>>),
      Reply("json", ReplyObject(<<JNull>>, <<JBool(TRUE)>>, <<>>, <<>>), <<>>),
      Reply("json", EmptyDict, <<>>)>>

\* a Sentinel's verifier: enabled (enable_verification), client (the Groq
\* client was created), reply (what the service does when it is called)
Verifiers ==
    {[enabled |-> FALSE, client |-> FALSE, reply |-> 1],
     [enabled |-> TRUE, client |-> FALSE, reply |-> 1]}
    \cup {[enabled |-> TRUE, client |-> TRUE, reply |-> r] : r \in 1..Len(Replies)}

\* the verification fields of a CheckResult that was not verified
Unverified(res) ==
    [res |-> res, is_verified |-> JNull, verification_confidence |-> 0,
     verification_reasoning |-> JNull, suggested_timestamp |-> JNull]

\* mutant: a timestamp the verifier rejects is not reported as a change
Verified_gatesChanged(res, v) ==
    [res |-> IF v.is_verified.k = "bool" /\ ~v.is_verified.v
             THEN [res EXCEPT !.changed = FALSE] ELSE res,
     is_verified |-> v.is_verified, verification_confidence |-> v.confidence,
     verification_reasoning |-> v.reasoning, suggested_timestamp |-> v.suggested_timestamp]

\* the CheckResult after the assignments of the verification result
Verified(res, v) ==
    [res |-> res, is_verified |-> v.is_verified, verification_confidence |-> v.confidence,
     verification_reasoning |-> v.reasoning, suggested_timestamp |-> v.suggested_timestamp]

\* check_for_updates of a Sentinel with the given verifier: the verifier is
\* called after the result has been built, when there is a client and a
\* current timestamp; [exc, out, st, verified]
check_for_updates_verified(st, dcid, fetch, clock, verifier) ==
    LET r == check_for_updates(st, dcid, fetch, clock) IN
    IF r.exc # "none"
    THEN [exc |-> r.exc, out |-> Unverified(r.res), st |-> r.st, verified |-> FALSE]
    ELSE IF ~(verifier.enabled /\ verifier.client /\ ~IsNone(r.res.current_timestamp))
    THEN [exc |-> "none", out |-> Unverified(r.res), st |-> r.st, verified |-> FALSE]
    ELSE LET v == verify_timestamp(verifier.client, Replies[verifier.reply]) IN
         IF v.exc # "none"
         THEN [exc |-> v.exc, out |-> Unverified(NoResult), st |-> r.st, verified |-> TRUE]
         ELSE [exc |-> "none", out |-> Verified(r.res, v.val), st |-> r.st, verified |-> TRUE]

------------------------------------------------------------------------------
(* The program: one Sentinel on a fresh state file in a directory that     *)
(* accepts writes                                                          *)

Idle == [status |-> "idle", idx |-> 0, results |-> <<>>, fetches |-> <<>>, pre |-> EmptyObj]

\* the callers of the StateManager
Threads == {"t1", "t2"}
\* a thread that is in no call
NoCall == [pc |-> "idle", op |-> "none", dcid |-> "", timestamp |-> NoneV, done |-> NoneV]
\* Lock() unlocked, no thread in a call
NoThreads == [lock |-> "free", th |-> [t \in Threads |-> NoCall],
              cleared |-> FALSE, contended |-> FALSE]

Init ==
    /\ disk = NoneV
    /\ state = _load_state(NoneV)
    /\ now = 0
    /\ last = [op |-> "init"]
    /\ batch = Idle
    /\ updated = {}
    /\ threads = NoThreads
    /\ fs = "ok"

\* one call of check_for_updates(dcid): the clock has advanced to now + 1 when
\* update_timestamp reads it; update_timestamp ends with _save_state
DoCheck(dcid, fetch, writable) ==
    \E r \in {check_for_updates(state, dcid, fetch, now + 1)} :
    /\ r.wrote => now < MaxClock
    /\ state' = r.st
    /\ now' = IF r.wrote THEN now + 1 ELSE now
    /\ disk' = IF r.wrote THEN _save_state(r.st, disk, writable) ELSE disk
    /\ updated' = IF r.wrote THEN updated \cup {dcid} ELSE updated
    /\ last' = [op |-> "check", dcid |-> dcid, fetch |-> fetch, exc |-> r.exc, res |-> r.res,
                fetched |-> r.fetched, read |-> r.read, wrote |-> r.wrote, at |-> now + 1]
    /\ UNCHANGED <<threads, fs>>

\* Sentinel.check_for_updates called by the command line for one source
Check(dcid) ==
    /\ batch.status = "idle"
    /\ \E fetch \in FetchOutcomes[dcid] : DoCheck(dcid, fetch, TRUE)
    /\ UNCHANGED <<batch, threads, fs>>

\* check_all_sources: results = [], sources = list_sources()
BatchStart ==
    /\ batch.status = "idle"
    /\ batch' = [status |-> IF Len(list_sources) = 0 THEN "done" ELSE "running",
                 idx |-> 1, results |-> <<>>, fetches |-> <<>>, pre |-> state]
    /\ last' = [op |-> "check_all_sources"]
    /\ UNCHANGED <<state, disk, now, updated, threads, fs>>

\* check_all_sources: one round of "for dcid in sources"; an exception of
\* check_for_updates ends the call, the loop's end returns the results
BatchStep ==
    /\ batch.status = "running"
    /\ LET dcid == list_sources[batch.idx] IN
       \E fetch \in FetchOutcomes[dcid] :
          /\ DoCheck(dcid, fetch, TRUE)
          /\ batch' = IF last'.exc # "none"
                      THEN [batch EXCEPT !.status = "raised",
                                         !.fetches = Append(@, fetch)]
                      ELSE [batch EXCEPT !.status = IF batch.idx = Len(list_sources)
                                                    THEN "done" ELSE "running",
                                         !.idx = @ + 1,
                                         !.results = Append(@, last'.res),
                                         !.fetches = Append(@, fetch)]

Next ==
    \/ \E dcid \in Dcids : Check(dcid)
    \/ BatchStart
    \/ BatchStep

Spec == Init /\ [][Next]_vars

------------------------------------------------------------------------------
(* A Sentinel with a verifier, and the verifier called directly *)

\* the ids checked: the API source, an unconfigured id, a source without a
\* known method
VerifiedIds == {"s0", "s1", "s3"}

\* check_for_updates(dcid) of a Sentinel with the given verifier; plain is
\* what the same call does on a Sentinel constructed with
\* enable_verification=False
VerifiedCheck(dcid, fetch, verifier) ==
    /\ last.op = "init"
    /\ \E r \in {check_for_updates_verified(state, dcid, fetch, now + 1, verifier)},
          plain \in {check_for_updates(state, dcid, fetch, now + 1)} :
       /\ plain.wrote => now < MaxClock
       /\ state' = r.st
       /\ now' = IF plain.wrote THEN now + 1 ELSE now
       /\ disk' = IF plain.wrote THEN _save_state(r.st, disk, TRUE) ELSE disk
       /\ updated' = IF plain.wrote THEN updated \cup {dcid} ELSE updated
       /\ last' = [op |-> "check_verified", dcid |-> dcid, fetch |-> fetch,
                   verifier |-> verifier, exc |-> r.exc, out |-> r.out,
                   verified |-> r.verified, plain |-> plain]
    /\ UNCHANGED <<batch, threads, fs>>

\* verifier.verify_timestamp(...) called directly
VerifyCall(client, reply) ==
    /\ last.op = "init"
    /\ last' = [op |-> "verify_timestamp", client |-> client, reply |-> reply,
                out |-> verify_timestamp(client, Replies[reply])]
    /\ UNCHANGED <<state, disk, now, batch, updated, threads, fs>>

VerifyNext ==
    \/ \E dcid \in VerifiedIds, verifier \in Verifiers :
          \E fetch \in FetchOutcomes[dcid] : VerifiedCheck(dcid, fetch, verifier)
    \/ \E client \in BOOLEAN, reply \in 1..Len(Replies) : VerifyCall(client, reply)

\* the Sentinel starts on no state file or on the file an earlier run left
\* after one update_timestamp of the API source
VerifyInit ==
    /\ \/ disk = NoneV
       \/ \E timestamp \in Instants :
             disk = Some(update_timestamp(EmptyObj, "s1", timestamp, NoneV, NoneV, 0).st)
    /\ state = _load_state(disk)
    /\ now = 0
    /\ last = [op |-> "init"]
    /\ batch = Idle
    /\ updated = {}
    /\ threads = NoThreads
    /\ fs = "ok"

VerifySpec == VerifyInit /\ [][VerifyNext]_vars

------------------------------------------------------------------------------
(* The StateManager used directly, as the tests do *)

StoreIds == {"s1", "s2"}
RawTexts == {NoneV, Some(<<>>), Some(<<"r1">>)}

\* get_last_timestamp(dcid)
SMGet(dcid) ==
    /\ \E r \in {get_last_timestamp(state, dcid)} :
          last' = [op |-> "get_last_timestamp", dcid |-> dcid, exc |-> r.exc, out |-> r.val]
    /\ UNCHANGED <<state, disk, now, batch, updated, threads, fs>>

\* update_timestamp(dcid, timestamp, raw_value, etag)
SMUpdate(dcid, timestamp, raw_value, etag, writable) ==
    /\ now < MaxClock
    /\ \E r \in {update_timestamp(state, dcid, timestamp, raw_value, etag, now + 1)} :
          /\ state' = r.st
          /\ disk' = IF r.exc = "none" THEN _save_state(r.st, disk, writable) ELSE disk
          /\ updated' = IF r.exc = "none" THEN updated \cup {dcid} ELSE updated
          /\ last' = [op |-> "update_timestamp", dcid |-> dcid, exc |-> r.exc,
                      timestamp |-> timestamp, raw_value |-> raw_value, etag |-> etag,
                      at |-> now + 1]
    /\ now' = now + 1
    /\ UNCHANGED <<batch, threads, fs>>

\* get_state(dcid)
SMGetState(dcid) ==
    /\ \E r \in {get_state(state, dcid)} :
          last' = [op |-> "get_state", dcid |-> dcid, exc |-> r.exc, out |-> r.val]
    /\ UNCHANGED <<state, disk, now, batch, updated, threads, fs>>

\* clear_state(dcid)
SMClearState(dcid, writable) ==
    /\ \E r \in {clear_state(state, dcid)} :
          /\ state' = r.st
          /\ disk' = IF r.saved THEN _save_state(r.st, disk, writable) ELSE disk
          /\ last' = [op |-> "clear_state", dcid |-> dcid, exc |-> r.exc]
    /\ UNCHANGED <<now, batch, updated, threads, fs>>

\* clear_all()
SMClearAll(writable) ==
    /\ state' = clear_all(state)
    /\ disk' = _save_state(clear_all(state), disk, writable)
    /\ last' = [op |-> "clear_all", exc |-> "none"]
    /\ UNCHANGED <<now, batch, updated, threads, fs>>

\* StateManager(state_file): a new instance on the same file
SMNew ==
    /\ state' = IF loadRaises(disk) = "none" THEN _load_state(disk) ELSE state
    /\ last' = [op |-> "StateManager", exc |-> loadRaises(disk)]
    /\ UNCHANGED <<disk, now, batch, updated, threads, fs>>

\* one call on the StateManager; a write of the file succeeds when the file
\* system allows it and fails with IOError otherwise
StoreNext ==
    \/ \E dcid \in StoreIds : SMGet(dcid)
    \/ \E dcid \in StoreIds, timestamp \in Instants, raw_value \in RawTexts,
          etag \in ETagTexts :
          SMUpdate(dcid, timestamp, raw_value, etag, fs = "ok")
    \/ \E dcid \in StoreIds : SMGetState(dcid)
    \/ \E dcid \in StoreIds : SMClearState(dcid, fs = "ok")
    \/ SMClearAll(fs = "ok")
    \/ SMNew

StoreSpec == Init /\ [][StoreNext]_vars

------------------------------------------------------------------------------
(* Threads calling one StateManager: every public method is                *)
(* "with self._lock: body", the body of a mutating method being the change *)
(* of self._state followed by _save_state, which opens the file for        *)
(* writing (truncating it) and then dumps the whole document               *)

StoreOps == {"get_last_timestamp", "update_timestamp", "get_state", "get_all_states",
             "clear_state", "clear_all"}

\* get_all_states: a copy of the document
get_all_states(st) == Ret(st)

\* mutant: the lock excludes nobody
acquirable_always(lock) == TRUE

\* Lock.acquire of "with self._lock" returns only when the lock is unlocked
acquirable(lock) == lock = "free"

\* t is inside the with block of a method
InBody(t) == threads.th[t].pc \in {"body", "save", "dump", "exit"}

\* calls of update_timestamp that have not read the clock yet
pendingUpdates ==
    Cardinality({t \in Threads : /\ threads.th[t].op = "update_timestamp"
                                 /\ threads.th[t].pc \in {"acquire", "body"}})

\* each thread works on the source it checks
ThreadSource == [t \in Threads |-> IF t = "t1" THEN "s1" ELSE "s2"]

\* thread t calls a method and stands before "with self._lock"
TCall(t, op, dcid, timestamp) ==
    /\ threads.th[t].pc = "idle"
    /\ op = "update_timestamp" => now + pendingUpdates < MaxClock
    /\ threads' = [threads EXCEPT
                     !.th[t] = [@ EXCEPT !.pc = "acquire", !.op = op,
                                         !.dcid = IF op \in {"get_all_states", "clear_all"}
                                                  THEN "" ELSE dcid,
                                         !.timestamp = IF op = "update_timestamp"
                                                       THEN Some(timestamp) ELSE NoneV],
                     !.contended = @ \/ threads.lock # "free"]
    /\ last' = [op |-> "threads"]
    /\ UNCHANGED <<state, disk, now, batch, updated, fs>>

\* "with self._lock": t enters the block
TAcquire(t) ==
    /\ threads.th[t].pc = "acquire"
    /\ acquirable(threads.lock)
    /\ threads' = [threads EXCEPT !.lock = t, !.th[t].pc = "body"]
    /\ UNCHANGED <<state, disk, now, last, batch, updated, fs>>

\* the part of the method that reads or changes self._state
TBody(t) ==
    /\ threads.th[t].pc = "body"
    /\ LET c == threads.th[t] IN
       CASE c.op = "update_timestamp" ->
              /\ state' = update_timestamp(state, c.dcid, Get(c.timestamp), NoneV, NoneV,
                                           now + 1).st
              /\ now' = now + 1
              /\ updated' = updated \cup {c.dcid}
              /\ threads' = [threads EXCEPT !.th[t].pc = "save"]
         [] c.op = "clear_state" ->
              /\ state' = clear_state(state, c.dcid).st
              /\ threads' = [threads EXCEPT
                               !.th[t].pc = IF clear_state(state, c.dcid).saved
                                            THEN "save" ELSE "exit",
                               !.cleared = TRUE]
              /\ UNCHANGED <<now, updated, fs>>
         [] c.op = "clear_all" ->
              /\ state' = clear_all(state)
              /\ threads' = [threads EXCEPT !.th[t].pc = "save", !.cleared = TRUE]
              /\ UNCHANGED <<now, updated, fs>>
         [] OTHER ->
              /\ threads' = [threads EXCEPT !.th[t].pc = "exit"]
              /\ UNCHANGED <<state, now, updated, fs>>
    /\ UNCHANGED <<disk, last, batch, fs>>

\* _save_state: open(self.state_file, 'w') truncates the file
TOpen(t) ==
    /\ threads.th[t].pc = "save"
    /\ disk' = Some(Corrupt)
    /\ threads' = [threads EXCEPT !.th[t].pc = "dump"]
    /\ UNCHANGED <<state, now, last, batch, updated, fs>>

\* _save_state: json.dump(self._state, f) writes the document as it is now
TDump(t) ==
    /\ threads.th[t].pc = "dump"
    /\ disk' = Some(state)
    /\ threads' = [threads EXCEPT !.th[t].pc = "exit"]
    /\ UNCHANGED <<state, now, last, batch, updated, fs>>

\* the end of the with block releases the lock; the method returns
TExit(t) ==
    /\ threads.th[t].pc = "exit"
    /\ threads' = [threads EXCEPT
                     !.lock = "free",
                     !.th[t] = [NoCall EXCEPT
                                  !.done = IF threads.th[t].op = "update_timestamp"
                                           THEN Some([dcid |-> threads.th[t].dcid,
                                                      timestamp |-> Get(threads.th[t].timestamp)])
                                           ELSE threads.th[t].done]]
    /\ UNCHANGED <<state, disk, now, last, batch, updated, fs>>

LockNext ==
    \/ \E t \in Threads, op \in StoreOps, timestamp \in Instants :
          TCall(t, op, ThreadSource[t], timestamp)
    \/ \E t \in Threads : TAcquire(t)
    \/ \E t \in Threads : TBody(t)
    \/ \E t \in Threads : TOpen(t)
    \/ \E t \in Threads : TDump(t)
    \/ \E t \in Threads : TExit(t)

LockSpec == Init /\ [][LockNext]_vars

------------------------------------------------------------------------------
(* The StateManager constructed on a state file it did not write *)

\* an entry of the document: {"timestamp": v}
EntryWith(v) == JObj([x \in {"timestamp"} |-> v])
\* the document {"s1": e}
DocWith(e) == JObj([x \in {"s1"} |-> e])

\* the state files: valid entries, entries without or with a malformed
\* timestamp, entries that are no objects, roots that are no objects, a file
\* that is no JSON
StateFiles ==
    <<NoneV, Some(Corrupt), Some(EmptyObj),
      Some(DocWith(EntryWith(JStr(<<"dt", "1">>)))),
      Some(DocWith(EntryWith(JStr(<<"dt", "1", "Z">>)))),
      Some(DocWith(EntryWith(JStr(<<"dt", "1", "+00:00">>)))),
      Some(DocWith(EmptyObj)),
      Some(DocWith(EntryWith(JStr(<<"junk">>)))),
      Some(DocWith(EntryWith(JStr(<<>>)))),
      Some(DocWith(EntryWith(JNum(5)))),
      Some(DocWith(EntryWith(JNull))),
      Some(DocWith(EntryWith(JList(<<JStr(<<"dt", "1">>)>>)))),
      Some(DocWith(JStr(<<"dt", "1">>))),
      Some(DocWith(JNum(5))),
      Some(DocWith(JList(<<>>))),
      Some(DocWith(JNull)),
      Some(JList(<<>>)),
      Some(JList(<<JStr(<<"s1">>)>>)),
      Some(JStr(<<"s1">>)),
      Some(JNum(5)),
      Some(JNull)>>

LoadInit ==
    /\ \E i \in 1..Len(StateFiles) : disk = StateFiles[i]
    /\ state = _load_state(disk)
    /\ now = 0
    /\ last = [op |-> "StateManager", exc |-> "none"]
    /\ batch = Idle
    /\ updated = {}
    /\ threads = NoThreads
    /\ fs \in {"ok", "readonly"}

\* the state file is overwritten by another program with bytes that are no
\* UTF-8 text
FileDamaged ==
    /\ loadRaises(disk) = "none"
    /\ disk' = Some(Undecodable)
    /\ last' = [op |-> "file damaged", exc |-> "none"]
    /\ UNCHANGED <<state, now, batch, updated, threads, fs>>

LoadNext ==
    \/ StoreNext
    \/ FileDamaged

LoadSpec == LoadInit /\ [][LoadNext]_vars

------------------------------------------------------------------------------
(* compare_with_stored of each handler class, on every pair of arguments *)

\* no handler class overrides BaseHandler.compare_with_stored
handlerCompare(handler, current, stored) == compare_with_stored(current, stored)

Compare(handler, current, stored) ==
    /\ last' = [op |-> "compare_with_stored", handler |-> handler, current |-> current,
                stored |-> stored, out |-> handlerCompare(handler, current, stored)]
    /\ UNCHANGED <<state, disk, now, batch, updated, threads, fs>>

CompareNext ==
    \E handler \in HANDLER_MAP, current \in OptInstants, stored \in OptInstants :
        Compare(handler, current, stored)

CompareSpec == Init /\ [][CompareNext]_vars

------------------------------------------------------------------------------
(* fetch_current_timestamp of a new handler instance of each class, on     *)
(* every answer of its environment                                         *)

PageTexts == {NoneV, Some(<<"junk">>), Some(<<"dt", "0">>), Some(<<"dt", "1", "Z">>)}
StepOutcomes == {"ok", "TimeoutException", "WebDriverException", "Exception"}
HeaderLines ==
    {<<>>}
    \cup {<<[name |-> n, value |-> v]>> :
            n \in {"Last-Modified", "last-modified", "Date", "Server"},
            v \in {<<"junk">>} \cup {rfcText(i) : i \in Instants} \cup {isoformat(i) : i \in Instants}}
    \cup {<<[name |-> "Date", value |-> rfcText(i)], [name |-> "LAST-MODIFIED", value |-> v]>> :
            i \in Instants, v \in {<<"junk">>} \cup {rfcText(j) : j \in Instants}}

HTTPFetching ==
    /\ last.op = "init"
    /\ \E env \in [has_url : BOOLEAN, fails : 0..DefaultMaxRetries,
                   resp : [last_modified : HeaderTexts, etag : ETagTexts, date : HeaderTexts]] :
          last' = [op |-> "fetch_current_timestamp", handler |-> "http_head", env |-> env,
                   out |-> HTTPFetch(DefaultMaxRetries, env)]
    /\ UNCHANGED <<state, disk, now, batch, updated, threads, fs>>

APIFetching ==
    /\ last.op = "init"
    /\ \E has_url \in BOOLEAN, fails \in 0..DefaultMaxRetries, b \in 1..Len(APIBodies) :
          \E env \in {[has_url |-> has_url, fails |-> fails, body |-> APIBodies[b],
                       timestamp_field |-> "updated_at", fallback_fields |-> <<"modified">>]} :
             last' = [op |-> "fetch_current_timestamp", handler |-> "api", env |-> env,
                      out |-> APIFetch(DefaultMaxRetries, env)]
    /\ UNCHANGED <<state, disk, now, batch, updated, threads, fs>>

BS4Fetching ==
    /\ last.op = "init"
    /\ \E env \in [has_url : BOOLEAN, bs4_installed : BOOLEAN, fails : 0..DefaultMaxRetries,
                   page : [by_selectors : PageTexts, common_elements : {NoneV, Some(<<"junk">>)},
                           meta_tags : {NoneV, Some(<<"dt", "0">>)}, patterns : PageTexts]] :
          last' = [op |-> "fetch_current_timestamp", handler |-> "beautifulsoup", env |-> env,
                   out |-> BS4Fetch(DefaultMaxRetries, env)]
    /\ UNCHANGED <<state, disk, now, batch, updated, threads, fs>>

CLIFetching ==
    /\ last.op = "init"
    /\ \E env \in [has_url : BOOLEAN, run : {"ok", "nonzero", "TimeoutExpired", "OSError"},
                   stdout : HeaderLines] :
          last' = [op |-> "fetch_current_timestamp", handler |-> "cli", env |-> env,
                   out |-> CLIFetch(env)]
    /\ UNCHANGED <<state, disk, now, batch, updated, threads, fs>>

\* at most one step of the session fails
SeleniumFetching ==
    /\ last.op = "init"
    /\ \E failing \in {"none", "install", "chrome", "get", "wait"},
          e \in StepOutcomes \ {"ok"},
          rest \in [has_url : BOOLEAN, selenium_installed : BOOLEAN,
                    quit : {"ok", "WebDriverException"},
                    selector_text : PageTexts, pattern_text : PageTexts] :
          \E env \in {[has_url |-> rest.has_url,
                       selenium_installed |-> rest.selenium_installed,
                       install |-> IF failing = "install" THEN e ELSE "ok",
                       chrome |-> IF failing = "chrome" THEN e ELSE "ok",
                       get |-> IF failing = "get" THEN e ELSE "ok",
                       wait |-> IF failing = "wait" THEN e ELSE "ok",
                       quit |-> rest.quit,
                       selector_text |-> rest.selector_text,
                       pattern_text |-> rest.pattern_text]} :
             last' = [op |-> "fetch_current_timestamp", handler |-> "selenium", env |-> env,
                      out |-> SeleniumFetch(env)]
    /\ UNCHANGED <<state, disk, now, batch, updated, threads, fs>>

FetchNext ==
    \/ HTTPFetching
    \/ APIFetching
    \/ BS4Fetching
    \/ CLIFetching
    \/ SeleniumFetching

FetchSpec == Init /\ [][FetchNext]_vars

------------------------------------------------------------------------------
(* The retry loops of HTTPHandler, APIHandler and BS4Handler under every   *)
(* setting of http.max_retries from 0 to the default, the server failing   *)
(* fewer, as many or more requests than that                               *)

\* one fetch of a new handler: answer is what the body of the try block
\* returns on the first response, requests the number of requests sent
HTTPRetrying(max_retries, fails) ==
    /\ last.op = "init"
    /\ \E resp \in [last_modified : HeaderTexts, etag : ETagTexts, date : HeaderTexts] :
          last' = [op |-> "retry", handler |-> "http_head", max_retries |-> max_retries,
                   fails |-> fails, requests |-> requestsSent(0, max_retries, fails),
                   out |-> HTTPFetch(max_retries,
                                     [has_url |-> TRUE, fails |-> fails, resp |-> resp]),
                   answer |-> HTTPResponse(resp)]
    /\ UNCHANGED <<state, disk, now, batch, updated, threads, fs>>

APIRetrying(max_retries, fails) ==
    /\ last.op = "init"
    /\ \E b \in 1..Len(APIBodies) :
          last' = [op |-> "retry", handler |-> "api", max_retries |-> max_retries,
                   fails |-> fails, requests |-> requestsSent(0, max_retries, fails),
                   out |-> APIFetch(max_retries,
                                    [has_url |-> TRUE, fails |-> fails, body |-> APIBodies[b],
                                     timestamp_field |-> "updated_at",
                                     fallback_fields |-> <<"modified">>]),
                   answer |-> _parse_json_response(APIBodies[b], "updated_at", <<"modified">>)]
    /\ UNCHANGED <<state, disk, now, batch, updated, threads, fs>>

BS4Retrying(max_retries, fails) ==
    /\ last.op = "init"
    /\ \E page \in [by_selectors : PageTexts, common_elements : {NoneV, Some(<<"junk">>)},
                     meta_tags : {NoneV, Some(<<"dt", "0">>)}, patterns : PageTexts] :
          last' = [op |-> "retry", handler |-> "beautifulsoup", max_retries |-> max_retries,
                   fails |-> fails, requests |-> requestsSent(0, max_retries, fails),
                   out |-> BS4Fetch(max_retries, [has_url |-> TRUE, bs4_installed |-> TRUE,
                                                  fails |-> fails, page |-> page]),
                   answer |-> _extract_timestamp(page)]
    /\ UNCHANGED <<state, disk, now, batch, updated, threads, fs>>

RetryNext ==
    \E max_retries \in 0..DefaultMaxRetries, fails \in 0..(DefaultMaxRetries + 1) :
        \/ HTTPRetrying(max_retries, fails)
        \/ APIRetrying(max_retries, fails)
        \/ BS4Retrying(max_retries, fails)

RetrySpec == Init /\ [][RetryNext]_vars

------------------------------------------------------------------------------
(* APIHandler of src/main.py: one request per HTTP method, and the         *)
(* APIHandler of src/handlers, which sends GET requests only.  answers     *)
(* gives, for each method, what the server does with a request of that     *)
(* method: "ok", "405", or "fail" (no answer or an error status, a         *)
(* RequestException)                                                       *)

HTTPMethods == {"GET", "HEAD", "POST"}

\* methods_to_try: the configured method, then the fallbacks of GET and POST
methods_to_try(http_method) ==
    <<http_method>> \o (IF http_method = "GET" THEN <<"HEAD", "POST">>
                        ELSE IF http_method = "POST" THEN <<"GET", "HEAD">>
                        ELSE <<>>)

\* what fetch returns once the request of the method has passed
\* raise_for_status: the Last-Modified header for HEAD, the JSON body otherwise
methodAnswer(method, env) ==
    IF method = "HEAD"
    THEN (IF truthyText(env.last_modified)
          THEN (IF parsedate_to_datetime(Get(env.last_modified)).exc = "none"
                THEN Fetched(parsedate_to_datetime(Get(env.last_modified)).val,
                             env.last_modified, NoneV)
                ELSE Fetched(DateParser_parse(Get(env.last_modified)), env.last_modified, NoneV))
          ELSE Fetched(NoneV, NoneV, NoneV))
    ELSE _parse_json_response(env.body, "updated_at", <<"modified">>)

\* "for method in methods_to_try": [out, tried], tried the methods requested
RECURSIVE methodLoop(_, _, _, _)
methodLoop(i, methods, env, tried) ==
    IF i > Len(methods) THEN [out |-> NoneLogged("all methods failed"), tried |-> tried]
    ELSE IF methods[i] \notin HTTPMethods THEN methodLoop(i + 1, methods, env, tried)
    ELSE IF env.answers[methods[i]] \in {"405", "fail"}
         THEN methodLoop(i + 1, methods, env, Append(tried, methods[i]))
    ELSE [out |-> methodAnswer(methods[i], env), tried |-> Append(tried, methods[i])]

\* APIHandler.fetch_current_timestamp of src/main.py
MainAPIFetch(http_method, env) == methodLoop(1, methods_to_try(http_method), env, <<>>)

\* APIHandler.fetch_current_timestamp of src/handlers: requests.get in the
\* retry loop, whatever http_method is configured
PackageAPIFetch(http_method, env) ==
    LET fails == IF env.answers["GET"] = "ok" THEN 0 ELSE DefaultMaxRetries IN
    [out |-> APIFetch(DefaultMaxRetries,
                      [has_url |-> TRUE, fails |-> fails, body |-> env.body,
                       timestamp_field |-> "updated_at", fallback_fields |-> <<"modified">>]),
     tried |-> [i \in 1..requestsSent(0, DefaultMaxRetries, fails) |-> "GET"]]

MethodEnvs ==
    {[answers |-> a, body |-> APIBodies[b], last_modified |-> lm] :
        a \in [HTTPMethods -> {"ok", "405", "fail"}], b \in {1, 2, 4}, lm \in HeaderTexts}

MainAPIFetching(http_method, env) ==
    /\ last.op = "init"
    /\ last' = [op |-> "api_methods", program |-> "main", http_method |-> http_method,
                env |-> env, fetch |-> MainAPIFetch(http_method, env)]
    /\ UNCHANGED <<state, disk, now, batch, updated, threads, fs>>

PackageAPIFetching(http_method, env) ==
    /\ last.op = "init"
    /\ last' = [op |-> "api_methods", program |-> "handlers", http_method |-> http_method,
                env |-> env, fetch |-> PackageAPIFetch(http_method, env)]
    /\ UNCHANGED <<state, disk, now, batch, updated, threads, fs>>

MethodNext ==
    \E http_method \in HTTPMethods, env \in MethodEnvs :
        \/ MainAPIFetching(http_method, env)
        \/ PackageAPIFetching(http_method, env)

MethodSpec == Init /\ [][MethodNext]_vars

------------------------------------------------------------------------------
(* APIHandler._parse_json_response on bodies that hold the configured      *)
(* field "updated_at" below the top level                                  *)

\* a body with the value v of "updated_at" in a nested object, two objects
\* deep, in the first element of a list, in a list inside an object, after a
\* sibling without timestamp fields, beside a top-level fallback field of
\* value w, and after a sibling object that holds a fallback field
NestedBody(shape, v, w) ==
    CASE shape = 1 -> JODict(<<Pair("data", JODict(<<Pair("updated_at", v)>>))>>)
      [] shape = 2 -> JODict(<<Pair("data", JODict(<<Pair("meta",
                                      JODict(<<Pair("updated_at", v)>>))>>))>>)
      [] shape = 3 -> JList(<<JODict(<<Pair("updated_at", v)>>)>>)
      [] shape = 4 -> JODict(<<Pair("items", JList(<<JODict(<<Pair("updated_at", v)>>)>>))>>)
      [] shape = 5 -> JODict(<<Pair("info", JODict(<<Pair("name", w)>>)),
                               Pair("data", JODict(<<Pair("updated_at", v)>>))>>)
      [] shape = 6 -> JODict(<<Pair("data", JODict(<<Pair("updated_at", v)>>)),
                               Pair("modified", w)>>)
      [] OTHER -> JODict(<<Pair("info", JODict(<<Pair("modified", w)>>)),
                           Pair("data", JODict(<<Pair("updated_at", v)>>))>>)

NestedShapes == 1..7

FieldSearch(shape, v, w) ==
    /\ last.op = "init"
    /\ last' = [op |-> "field_search", shape |-> shape, value |-> v, other |-> w,
                found |-> _find_timestamp_value(NestedBody(shape, v, w),
                                                <<"updated_at", "modified">>),
                out |-> _parse_json_response(Some(NestedBody(shape, v, w)),
                                             "updated_at", <<"modified">>)]
    /\ UNCHANGED <<state, disk, now, batch, updated, threads, fs>>

FieldNext ==
    \E shape \in NestedShapes, i \in 1..Len(APIValues), j \in 1..2 :
        FieldSearch(shape, APIValues[i], APIValues[j])

FieldSpec == Init /\ [][FieldNext]_vars

------------------------------------------------------------------------------
(* The browser session of SeleniumHandler.fetch_current_timestamp, step by *)
(* step: the try block up to its return or its except clause, then the     *)
(* finally clause.  driver is "none" while the variable driver is None,    *)
(* "open" once webdriver.Chrome has returned, "quit" after driver.quit()   *)

\* the try block with its except clauses: the pending outcome of the try
\* statement and the driver it leaves
seleniumTry(env) ==
    IF env.install # "ok" THEN [pending |-> seleniumExcept(env.install), driver |-> "none"]
    ELSE IF env.chrome # "ok" THEN [pending |-> seleniumExcept(env.chrome), driver |-> "none"]
    ELSE IF env.get # "ok" THEN [pending |-> seleniumExcept(env.get), driver |-> "open"]
    ELSE IF env.wait # "ok" THEN [pending |-> seleniumExcept(env.wait), driver |-> "open"]
    ELSE [pending |-> seleniumPage(env), driver |-> "open"]

\* mutant: quit is the last statement of the try block, not a finally clause
driverAfterFinally_onReturnOnly(driver, pending) ==
    IF driver = "open" /\ pending.exc = "none" /\ pending.log = "none" THEN "quit" ELSE driver

\* "finally: if driver: driver.quit()"
driverAfterFinally(driver, pending) ==
    IF driver = "open" THEN "quit" ELSE driver

SeleniumBegin(env) ==
    /\ last.op = "init"
    /\ last' = IF env.has_url /\ env.selenium_installed
               THEN [op |-> "selenium", pc |-> "try", env |-> env, driver |-> "none",
                     out |-> NoFetch]
               ELSE [op |-> "selenium", pc |-> "done", env |-> env, driver |-> "none",
                     out |-> SeleniumFetch(env)]
    /\ UNCHANGED <<state, disk, now, batch, updated, threads, fs>>

SeleniumTry ==
    /\ last.op = "selenium" /\ last.pc = "try"
    /\ last' = [last EXCEPT !.pc = "finally",
                            !.driver = seleniumTry(last.env).driver,
                            !.out = seleniumTry(last.env).pending]
    /\ UNCHANGED <<state, disk, now, batch, updated, threads, fs>>

SeleniumFinally ==
    /\ last.op = "selenium" /\ last.pc = "finally"
    /\ last' = [last EXCEPT !.pc = "done",
                            !.driver = driverAfterFinally(last.driver, last.out),
                            !.out = IF last.driver = "open"
                                    THEN seleniumFinally(last.out, last.env.quit)
                                    ELSE last.out]
    /\ UNCHANGED <<state, disk, now, batch, updated, threads, fs>>

BrowserNext ==
    \/ \E env \in [has_url : BOOLEAN, selenium_installed : BOOLEAN,
                    install : {"ok", "Exception"}, chrome : {"ok", "WebDriverException"},
                    get : StepOutcomes, wait : StepOutcomes,
                    quit : {"ok", "WebDriverException"},
                    selector_text : {NoneV, Some(<<"dt", "0">>)},
                    pattern_text : {NoneV, Some(<<"junk">>)}] : SeleniumBegin(env)
    \/ SeleniumTry
    \/ SeleniumFinally

BrowserSpec == Init /\ [][BrowserNext]_vars

------------------------------------------------------------------------------
(* The page scan of the two SeleniumHandlers once the page is loaded.  A   *)
(* page is [selector_text, pattern_texts, json_text]: the text of the      *)
(* first element a configured selector finds, the texts the date patterns  *)
(* match in order, and the value of the first JSON-like date field of the  *)
(* page source.  clock is the reading of datetime.now() at the check       *)

\* "parsed.year >= 2020"
FloorYear == 2020
\* parsed.year: the datetime of reading 0 lies in the last year below the floor
yearOf(dt) == FloorYear - 1 + dt.t

\* src/main.py, "for pattern in patterns: for date_str in matches": the first
\* match that parses and passes the bounds; comparing an aware datetime with
\* datetime.now() raises TypeError
RECURSIVE patternScan(_, _, _)
patternScan(texts, i, clock) ==
    IF i > Len(texts) THEN Fetched(NoneV, NoneV, NoneV)
    ELSE LET parsed == DateParser_parse(texts[i]) IN
         IF IsNone(parsed) THEN patternScan(texts, i + 1, clock)
         ELSE IF yearOf(Get(parsed)) < FloorYear THEN patternScan(texts, i + 1, clock)
         ELSE IF Get(parsed).tz # "naive" THEN FetchRaised("TypeError", NoneV)
         ELSE IF Get(parsed).t <= clock THEN Fetched(parsed, Some(texts[i]), NoneV)
         ELSE patternScan(texts, i + 1, clock)

\* src/main.py: selectors, then patterns, then JSON-like fields; the
\* enclosing "except Exception" returns None
MainPageScan(page, clock) ==
    IF truthyText(page.selector_text) /\ ~IsNone(DateParser_parse(Get(page.selector_text)))
    THEN Fetched(DateParser_parse(Get(page.selector_text)), page.selector_text, NoneV)
    ELSE IF patternScan(page.pattern_texts, 1, clock).exc # "none"
    THEN NoneLogged("selenium error")
    ELSE IF ~IsNone(patternScan(page.pattern_texts, 1, clock).ts)
    THEN patternScan(page.pattern_texts, 1, clock)
    ELSE IF ~IsNone(page.json_text)
    THEN (IF ~IsNone(DateParser_parse(Get(page.json_text)))
          THEN Fetched(DateParser_parse(Get(page.json_text)), page.json_text, NoneV)
          ELSE Logged(Fetched(NoneV, page.json_text, NoneV), "no date found"))
    ELSE NoneLogged("no date found")

\* src/handlers: _find_timestamp_on_page, then _search_page_for_date on the
\* first pattern match
PackagePageScan(page, clock) ==
    seleniumPage([selector_text |-> page.selector_text,
                  pattern_text |-> IF Len(page.pattern_texts) = 0 THEN NoneV
                                   ELSE Some(page.pattern_texts[1])])

DateTexts == {<<"junk">>} \cup {<<"dt", DigitStr(t)>> : t \in TValues}
ScanPages ==
    [selector_text : {NoneV} \cup {Some(x) : x \in DateTexts},
     pattern_texts : {<<>>} \cup {<<x>> : x \in DateTexts}
                     \cup {<<x, y>> : x \in DateTexts \ {<<"junk">>}, y \in DateTexts}
                     \cup {<<<<"dt", "1", "Z">>>>},
     json_text : {NoneV} \cup {Some(x) : x \in DateTexts}]

MainPageScanning(page, clock) ==
    /\ last.op = "init"
    /\ last' = [op |-> "page_scan", program |-> "main", page |-> page, clock |-> clock,
                out |-> MainPageScan(page, clock)]
    /\ UNCHANGED <<state, disk, now, batch, updated, threads, fs>>

PackagePageScanning(page, clock) ==
    /\ last.op = "init"
    /\ last' = [op |-> "page_scan", program |-> "handlers", page |-> page, clock |-> clock,
                out |-> PackagePageScan(page, clock)]
    /\ UNCHANGED <<state, disk, now, batch, updated, threads, fs>>

ScanNext ==
    \E page \in ScanPages, clock \in TValues :
        \/ MainPageScanning(page, clock)
        \/ PackagePageScanning(page, clock)

ScanSpec == Init /\ [][ScanNext]_vars

------------------------------------------------------------------------------
(* DateParser.parse on texts written with the templates of DATE_FORMATS.   *)
(* A calendar datetime is [m, d, s]: month, day of the month and second of *)
(* the day (the year is fixed).  A text is [layout, a, b, s]: layout names *)
(* its punctuation, a and b are its two month/day fields in the order they *)
(* stand in, s its time of day (0 when the layout has none).  Two          *)
(* templates that differ only in the order of %m and %d share a layout     *)

DATE_FORMATS ==
    <<[layout |-> "Y-n-nTH:M:S.fZ", order |-> "md", time |-> TRUE],
      [layout |-> "Y-n-nTH:M:SZ", order |-> "md", time |-> TRUE],
      [layout |-> "Y-n-nTH:M:S.f", order |-> "md", time |-> TRUE],
      [layout |-> "Y-n-nTH:M:S", order |-> "md", time |-> TRUE],
      [layout |-> "Y-n-n H:M:S", order |-> "md", time |-> TRUE],
      [layout |-> "Y-n-n", order |-> "md", time |-> FALSE],
      [layout |-> "n/n/Y H:M:S", order |-> "md", time |-> TRUE],
      [layout |-> "n/n/Y", order |-> "md", time |-> FALSE],
      [layout |-> "n-n-Y", order |-> "md", time |-> FALSE],
      [layout |-> "n/n/Y H:M:S", order |-> "dm", time |-> TRUE],
      [layout |-> "n/n/Y", order |-> "dm", time |-> FALSE],
      [layout |-> "n-n-Y", order |-> "dm", time |-> FALSE],
      [layout |-> "B n, Y", order |-> "md", time |-> FALSE],
      [layout |-> "b n, Y", order |-> "md", time |-> FALSE],
      [layout |-> "B n Y", order |-> "md", time |-> FALSE],
      [layout |-> "b n Y", order |-> "md", time |-> FALSE],
      [layout |-> "n B Y", order |-> "dm", time |-> FALSE],
      [layout |-> "n b Y", order |-> "dm", time |-> FALSE],
      [layout |-> "a, n b Y H:M:S GMT", order |-> "dm", time |-> TRUE],
      [layout |-> "a, n b Y H:M:S Z", order |-> "dm", time |-> TRUE],
      [layout |-> "Ynn", order |-> "md", time |-> FALSE],
      [layout |-> "YnnHMS", order |-> "md", time |-> TRUE]>>

\* dt.strftime(fmt) of a naive datetime: %Z writes nothing, which leaves the
\* text of the last RFC template with a trailing blank
strftime(dt, fmt) ==
    [layout |-> IF fmt.layout = "a, n b Y H:M:S Z" THEN "a, n b Y H:M:S " ELSE fmt.layout,
     a |-> IF fmt.order = "md" THEN dt.m ELSE dt.d,
     b |-> IF fmt.order = "md" THEN dt.d ELSE dt.m,
     s |-> IF fmt.time THEN dt.s ELSE 0]

\* datetime.strptime(text, fmt): ValueError when the text does not match the
\* template or the field read as %m is above 12
strptime(text, fmt) ==
    IF text.layout # fmt.layout THEN Raise("ValueError")
    ELSE IF (IF fmt.order = "md" THEN text.a ELSE text.b) > 12 THEN Raise("ValueError")
    ELSE Ret(Some([m |-> IF fmt.order = "md" THEN text.a ELSE text.b,
                   d |-> IF fmt.order = "md" THEN text.b ELSE text.a,
                   s |-> text.s]))

\* _clean_date_string: blanks at the ends are removed (the texts of this
\* model carry no prefix and no zone abbreviation)
_clean_date_string(text) ==
    [text EXCEPT !.layout = IF @ = "a, n b Y H:M:S " THEN "a, n b Y H:M:S" ELSE @]

\* _try_unix_timestamp: the digits of a text that holds a year and a time
\* form a number above 1e9, read as epoch seconds: a datetime that has
\* nothing of the text's month and day ([m |-> 0, d |-> 0, s |-> 0] here)
_try_unix_timestamp(text) == Some([m |-> 0, d |-> 0, s |-> 0])

\* "for fmt in self.DATE_FORMATS": the first template that reads the text,
\* then _try_unix_timestamp
RECURSIVE tryFormats(_, _)
tryFormats(text, i) ==
    IF i > Len(DATE_FORMATS) THEN _try_unix_timestamp(text)
    ELSE IF strptime(text, DATE_FORMATS[i]).exc = "none" THEN strptime(text, DATE_FORMATS[i]).val
    ELSE tryFormats(text, i + 1)

\* dateutil_parser.parse(text, fuzzy=True), dayfirst left at its default: of
\* two numbers the first is the month unless it is above 12; a month name
\* is read where it stands
dateutil_parse(text) ==
    IF text.layout \in {"n/n/Y H:M:S", "n/n/Y", "n-n-Y"}
    THEN (IF text.a <= 12 THEN Some([m |-> text.a, d |-> text.b, s |-> text.s])
          ELSE Some([m |-> text.b, d |-> text.a, s |-> text.s]))
    ELSE IF text.layout \in {"n B Y", "n b Y", "a, n b Y H:M:S GMT", "a, n b Y H:M:S"}
    THEN Some([m |-> text.b, d |-> text.a, s |-> text.s])
    ELSE Some([m |-> text.a, d |-> text.b, s |-> text.s])

\* DateParser.parse: dateutil when it is installed, else the templates
DateParser_parse_text(text, dateutil_installed) ==
    IF dateutil_installed THEN dateutil_parse(_clean_date_string(text))
    ELSE tryFormats(_clean_date_string(text), 1)

CalendarDates == [m : {1, 2}, d : {1, 2, 13}, s : {0, 1}]

RoundTrip(i, dt, dateutil_installed) ==
    /\ last.op = "init"
    /\ last' = [op |-> "round_trip", fmt |-> DATE_FORMATS[i], dt |-> dt,
                dateutil_installed |-> dateutil_installed,
                text |-> strftime(dt, DATE_FORMATS[i]),
                out |-> DateParser_parse_text(strftime(dt, DATE_FORMATS[i]),
                                              dateutil_installed)]
    /\ UNCHANGED <<state, disk, now, batch, updated, threads, fs>>

FormatNext ==
    \E i \in 1..Len(DATE_FORMATS), dt \in CalendarDates, dateutil_installed \in BOOLEAN :
        RoundTrip(i, dt, dateutil_installed)

FormatSpec == Init /\ [][FormatNext]_vars

------------------------------------------------------------------------------
(* Checks of the HTTP HEAD source s2, each on the response of its request  *)

\* check_for_updates("s2") when the server answers the first request with resp
HeadCheck(resp) ==
    \E r \in {check_for_updates(state, "s2",
                                 HTTPFetch(DefaultMaxRetries,
                                           [has_url |-> TRUE, fails |-> 0, resp |-> resp]),
                                 now + 1)} :
    /\ now < MaxClock
    /\ state' = r.st
    /\ now' = now + 1
    /\ disk' = IF r.wrote THEN _save_state(r.st, disk, TRUE) ELSE disk
    /\ updated' = IF r.wrote THEN updated \cup {"s2"} ELSE updated
    /\ last' = [op |-> "head_check", resp |-> resp, exc |-> r.exc, res |-> r.res]
    /\ UNCHANGED <<batch, threads, fs>>

HeadNext ==
    \E resp \in [last_modified : {NoneV, Some(<<"junk">>), Some(rfcText([t |-> 0, tz |-> "utc"]))},
                  etag : {NoneV, Some(<<"e1">>), Some(<<"e2">>)},
                  date : {NoneV} \cup {Some(rfcText([t |-> t, tz |-> "utc"])) : t \in TValues}] :
        HeadCheck(resp)

HeadSpec == Init /\ [][HeadNext]_vars

------------------------------------------------------------------------------
(* Consecutive calls of check_for_updates for one source, through one      *)
(* Sentinel or through a Sentinel constructed anew on the same state file  *)

\* the number of consecutive calls
RunLen == 3

\* the handler's fetch returned ts, with the text it was read from
Observed(ts) ==
    Fetched(ts, IF IsNone(ts) THEN NoneV ELSE Some(isoformat(Get(ts))), NoneV)

\* calls i..Len(obs) of check_for_updates(dcid), the i-th obtaining obs[i];
\* reopen: StateManager.__init__ loads the file before each call.  An
\* exception of a call leaves the document as it was and reaches the caller,
\* who makes the next call.  [outs, st, file, writes]
RECURSIVE checkRun(_, _, _, _, _, _, _)
checkRun(st, file, dcid, obs, reopen, i, clock) ==
    IF i > Len(obs) THEN [outs |-> <<>>, st |-> st, file |-> file, writes |-> 0]
    ELSE LET opened == IF reopen THEN _load_state(file) ELSE st
             r == check_for_updates(opened, dcid, Observed(obs[i]), clock + 1)
             saved == IF r.wrote THEN _save_state(r.st, file, TRUE) ELSE file
             rest == checkRun(r.st, saved, dcid, obs, reopen, i + 1,
                              IF r.wrote THEN clock + 1 ELSE clock)
         IN [outs |-> <<[exc |-> r.exc, res |-> r.res]>> \o rest.outs,
             st |-> rest.st, file |-> rest.file,
             writes |-> rest.writes + (IF r.wrote THEN 1 ELSE 0)]

\* RunLen calls of check_for_updates(dcid) in a row
CheckRun(dcid, obs, reopen) ==
    \E run \in {checkRun(state, disk, dcid, obs, reopen, 1, now)} :
    /\ last.op = "init"
    /\ state' = run.st
    /\ disk' = run.file
    /\ now' = now + run.writes
    /\ updated' = IF run.writes > 0 THEN updated \cup {dcid} ELSE updated
    /\ last' = [op |-> "check_run", dcid |-> dcid, obs |-> obs, reopen |-> reopen,
                outs |-> run.outs]
    /\ UNCHANGED <<batch, threads, fs>>

RunNext ==
    \E dcid \in {"s1", "s2"}, obs \in [1..RunLen -> OptInstants], reopen \in BOOLEAN :
        CheckRun(dcid, obs, reopen)

RunSpec == Init /\ [][RunNext]_vars

------------------------------------------------------------------------------
(* The StateManager on a state_file path with or without a directory part. *)
(* _save_state calls os.makedirs(os.path.dirname(state_file)) first: for a *)
(* bare file name dirname is '' and makedirs raises FileNotFoundError, an   *)
(* IOError, which _save_state catches before the file is opened.           *)

\* StateManager(state_file) on a file system that accepts writes
PathInit ==
    /\ disk = NoneV
    /\ state = _load_state(NoneV)
    /\ now = 0
    /\ last = [op |-> "init"]
    /\ batch = Idle
    /\ updated = {}
    /\ threads = NoThreads
    /\ fs \in {"ok", "bare"}

PathSpec == PathInit /\ [][StoreNext]_vars

------------------------------------------------------------------------------
(* Properties *)

\* C1: compare_with_stored of every handler class is false when current is
\* None, true when current is present and stored is None, and otherwise the
\* value of current > stored (strict: equal instants are no change; the
\* comparison of a naive with an aware datetime has no value, it raises)
C1_ComparePolicy ==
    last.op = "compare_with_stored" =>
        IF IsNone(last.current) THEN last.out.exc = "none" /\ last.out.val = FALSE
        ELSE IF IsNone(last.stored) THEN last.out.exc = "none" /\ last.out.val = TRUE
        ELSE IF Get(last.current).tz = Get(last.stored).tz
        THEN /\ last.out.exc = "none"
             /\ last.out.val = (Get(last.current).t > Get(last.stored).t)
        ELSE last.out.exc = "TypeError"

C1_EqualInstantCompared ==
    /\ last.op = "compare_with_stored"
    /\ ~IsNone(last.current)
    /\ last.current = last.stored
    /\ last.out.exc = "none"
    /\ last.out.val = FALSE

\* a check that called the handler's fetch and got a datetime back
GotInstant == last.op = "check" /\ last.fetched /\ last.fetch.exc = "none"
              /\ ~IsNone(last.fetch.ts)
\* a check that called the handler's fetch and got None back
GotNone == last.op = "check" /\ last.fetched /\ last.fetch.exc = "none"
           /\ IsNone(last.fetch.ts)

\* C2: after a check whose fetch returned an instant, the stored timestamp of
\* the source is that instant, whatever was stored before; a check that got no
\* instant deletes nothing
C2_EveryInstantPersisted ==
    /\ GotInstant =>
          /\ last.exc = "none"
          /\ get_last_timestamp(state, last.dcid) = Ret(last.fetch.ts)
    /\ (last.op = "check" /\ ~GotInstant) => ~last.wrote

\* C3: last_check of the source is the time of the check after every check
\* whose fetch produced an instant, and is not written by a check whose fetch
\* produced None or that ended in an error
C3_LastCheckAdvances ==
    /\ GotInstant =>
          /\ last.exc = "none"
          /\ last.dcid \in DOMAIN state.v
          /\ state.v[last.dcid].v["last_check"]
                = JStr(isoformat([t |-> last.at, tz |-> "naive"]))
    /\ (last.op = "check" /\ ~GotInstant) => ~last.wrote

\* dcid is not configured, or its method tag is missing or none of the five
NoKnownMethod(dcid) ==
    \/ dcid \notin DOMAIN Sources
    \/ IsNone(Sources[dcid].method)
    \/ Sources[dcid].method
          \notin {Some("http_head"), Some("api"), Some("selenium"), Some("beautifulsoup"),
                  Some("cli")}

\* C4: a check of an unconfigured id or of a source without a known method
\* returns an error result with changed = false, calls no fetch, neither reads
\* nor changes the StateManager, and a batch goes on to the next source
C4_NoHandlerIsErrorResult ==
    [][(last'.op = "check" /\ NoKnownMethod(last'.dcid)) =>
          /\ last'.exc = "none"
          /\ truthyText(last'.res.error)
          /\ last'.res.changed = FALSE
          /\ ~last'.fetched /\ ~last'.read /\ ~last'.wrote
          /\ state' = state /\ disk' = disk
          /\ batch.status = "running" =>
                /\ batch'.status \in {"running", "done"}
                /\ batch'.idx = batch.idx + 1
                /\ batch'.results = Append(batch.results, last'.res)]_vars

C4_BatchPastUnknownMethod ==
    /\ last.op = "check" /\ last.dcid = "s3"
    /\ batch.status = "running" /\ batch.idx = 4
    /\ truthyText(last.res.error)
    /\ state # EmptyObj

\* the fetches of the batch that raised
RaisedInFetch == {i \in 1..Len(batch.fetches) : batch.fetches[i].exc # "none"}

\* C5: a batch in which exactly one handler raised during fetch returns one
\* result per source; the raising source's result is an error with changed =
\* false and its state is as before the batch; every other source's result and
\* stored timestamp are those of a check of that source alone
C5_BatchIsolatesRaisingHandler ==
    (batch.status \in {"done", "raised"} /\ Cardinality(RaisedInFetch) = 1) =>
        /\ batch.status = "done"
        /\ Len(batch.results) = Len(list_sources)
        /\ \A i \in 1..Len(batch.results) :
              IF i \in RaisedInFetch
              THEN /\ truthyText(batch.results[i].error)
                   /\ batch.results[i].changed = FALSE
                   /\ get_state(state, list_sources[i]) = get_state(batch.pre, list_sources[i])
              ELSE /\ batch.results[i]
                        = check_for_updates(batch.pre, list_sources[i], batch.fetches[i], 0).res
                   /\ get_last_timestamp(state, list_sources[i])
                        = get_last_timestamp(
                             check_for_updates(batch.pre, list_sources[i], batch.fetches[i], 0).st,
                             list_sources[i])

\* C6: a check whose fetch failed on every attempt returns a result marked as an
\* error (error set, status error) and does not change the stored state
C6_ExhaustedRetriesIsError ==
    (last.op = "check" /\ last.fetched /\ last.fetch.log = "handle_error") =>
        /\ last.exc = "none"
        /\ truthyText(last.res.error)
        /\ status(last.res) = "error"
        /\ ~last.wrote

\* C7: a check whose fetch returned None returns changed = false with
\* current_timestamp None and leaves the stored document, so the entry of the
\* source with all its fields, exactly as it was
C7_NoneLeavesStateUntouched ==
    [][(last'.op = "check" /\ last'.fetched /\ last'.fetch.exc = "none"
        /\ IsNone(last'.fetch.ts)) =>
          /\ last'.exc = "none"
          /\ last'.res.changed = FALSE
          /\ IsNone(last'.res.current_timestamp)
          /\ ~last'.wrote
          /\ state' = state /\ disk' = disk /\ now' = now]_vars

C7_NoneAfterStoredEntry ==
    /\ GotNone
    /\ last.dcid \in DOMAIN state.v
    /\ last.res.changed = FALSE
    /\ ~IsNone(last.res.previous_timestamp)

\* C8: fetch_current_timestamp of no handler class raises: every failure ends
\* in a return of None
C8_FetchNeverRaises ==
    last.op = "fetch_current_timestamp" => last.out.exc = "none"

\* C9: update_timestamp(id, T) then get_last_timestamp(id) gives T; after
\* clear_state(id) it gives None; after clear_all it gives None for every id;
\* for an id never updated it gives None
C9_StoreRoundTrip ==
    /\ last.op = "update_timestamp" =>
          /\ last.exc = "none"
          /\ get_last_timestamp(state, last.dcid) = Ret(Some(last.timestamp))
    /\ last.op = "clear_state" =>
          /\ last.exc = "none"
          /\ get_last_timestamp(state, last.dcid) = Ret(NoneV)
    /\ last.op = "clear_all" =>
          \A id \in StoreIds : get_last_timestamp(state, id) = Ret(NoneV)
    /\ \A id \in StoreIds \ updated : get_last_timestamp(state, id) = Ret(NoneV)

C9_AwareInstantReplacesNaive ==
    /\ last.op = "update_timestamp"
    /\ last.timestamp = [t |-> 0, tz |-> "utc"]
    /\ now = 2
    /\ get_last_timestamp(state, last.dcid) = Ret(Some(last.timestamp))

\* the entry of dcid in document st is an object whose timestamp is a string
HasTimestampText(st, dcid) ==
    /\ st.k = "obj"
    /\ dcid \in DOMAIN st.v
    /\ st.v[dcid].k = "obj"
    /\ "timestamp" \in DOMAIN st.v[dcid].v
    /\ st.v[dcid].v["timestamp"].k = "str"

\* C10: get_last_timestamp never raises, and returns None for an id that is
\* absent and for every malformed entry or document
C10_GetNeverRaises ==
    last.op = "get_last_timestamp" =>
        /\ last.exc = "none"
        /\ ~HasTimestampText(state, last.dcid) => IsNone(last.out)

\* field f of the entry of dcid in document st, <<>> when there is none
FieldOf(st, dcid, f) ==
    IF dcid \in DOMAIN st.v /\ f \in DOMAIN st.v[dcid].v THEN Some(st.v[dcid].v[f]) ELSE NoneV

\* C11: update_timestamp(id, instant, raw_value, etag) replaces timestamp and
\* last_check of id, replaces raw_value and etag when a (non-empty) value is
\* passed, keeps the stored raw_value and etag of id when none is passed, and
\* leaves the entry of every other id as it was
C11_UpdateMerges ==
    [][(last'.op = "update_timestamp") =>
          /\ last'.exc = "none"
          /\ FieldOf(state', last'.dcid, "timestamp") = Some(JStr(isoformat(last'.timestamp)))
          /\ FieldOf(state', last'.dcid, "last_check")
                = Some(JStr(isoformat([t |-> now', tz |-> "naive"])))
          /\ FieldOf(state', last'.dcid, "raw_value")
                = IF truthyText(last'.raw_value) THEN Some(JStr(Get(last'.raw_value)))
                  ELSE FieldOf(state, last'.dcid, "raw_value")
          /\ FieldOf(state', last'.dcid, "etag")
                = IF truthyText(last'.etag) THEN Some(JStr(Get(last'.etag)))
                  ELSE FieldOf(state, last'.dcid, "etag")
          /\ \A id \in StoreIds \ {last'.dcid} : get_state(state', id) = get_state(state, id)]_vars

C11_OmittedRawValueKept ==
    /\ last.op = "update_timestamp" /\ last.dcid = "s1"
    /\ IsNone(last.raw_value) /\ IsNone(last.etag)
    /\ FieldOf(state, "s1", "raw_value") = Some(JStr(<<"r1">>))
    /\ FieldOf(state, "s1", "etag") = Some(JStr(<<"e1">>))
    /\ now = 2

\* every thread has returned from its call
AllReturned == \A t \in Threads : threads.th[t].pc = "idle"

\* C12: at most one thread is inside the body of a StateManager method at a
\* time, and it holds the lock; once all calls have returned (none of them a
\* clear), every updated id has its entry in memory and in the document last
\* written to the file, with the timestamp of the last update of the thread
\* that checks it
C12_LockSerializes ==
    /\ Cardinality({t \in Threads : InBody(t)}) <= 1
    /\ \A t \in Threads : InBody(t) => threads.lock = t
    /\ (AllReturned /\ ~threads.cleared) =>
          /\ _load_state(disk) = state
          /\ \A id \in updated : id \in DOMAIN state.v /\ id \in DOMAIN _load_state(disk).v
          /\ \A t \in Threads :
                ~IsNone(threads.th[t].done)
                => /\ Get(threads.th[t].done).dcid = ThreadSource[t]
                   /\ get_last_timestamp(_load_state(disk), ThreadSource[t])
                        = Ret(Some(Get(threads.th[t].done).timestamp))

C12_OverlappingUpdatesBothKept ==
    /\ AllReturned /\ threads.contended /\ ~threads.cleared
    /\ threads.th["t1"].done = Some([dcid |-> "s1", timestamp |-> [t |-> 1, tz |-> "utc"]])
    /\ threads.th["t2"].done = Some([dcid |-> "s2", timestamp |-> [t |-> 0, tz |-> "naive"]])
    /\ get_last_timestamp(_load_state(disk), "s1") = Ret(Some([t |-> 1, tz |-> "utc"]))
    /\ get_last_timestamp(_load_state(disk), "s2") = Ret(Some([t |-> 0, tz |-> "naive"]))

\* st is the empty mapping {}
IsEmptyMapping(st) == st.k = "obj" /\ DOMAIN st.v = {}

\* C13: constructing a StateManager on a missing or corrupt state file never
\* raises and yields the empty mapping; update_timestamp, clear_state and
\* clear_all whose write of the file fails return normally, and reads after
\* them return the new in-memory value
C13_PersistenceFailuresAbsorbed ==
    /\ last.op = "StateManager" =>
          /\ last.exc = "none"
          /\ (IsNone(disk) \/ Get(disk).k \in {"corrupt", "undecodable"}) => IsEmptyMapping(state)
    /\ (fs = "readonly" /\ last.op = "update_timestamp" /\ last.exc = "none") =>
          get_last_timestamp(state, last.dcid) = Ret(Some(last.timestamp))
    /\ (fs = "readonly" /\ last.op = "clear_state" /\ last.exc = "none" /\ state.k = "obj") =>
          get_state(state, last.dcid) = Ret(NoneV)
    /\ (fs = "readonly" /\ last.op = "clear_all") => IsEmptyMapping(state)

\* C14: for the same source, stored state and handler outcome, a check with a
\* verifier returns (or raises) as the check without verification does, with
\* the same changed, current_timestamp, previous_timestamp and error, and
\* leaves the same state; the verifier is called only after the state was
\* persisted
C14_VerificationIsAdvisory ==
    last.op = "check_verified" =>
        /\ last.exc = last.plain.exc
        /\ last.exc = "none" =>
              /\ last.out.res.changed = last.plain.res.changed
              /\ last.out.res.current_timestamp = last.plain.res.current_timestamp
              /\ last.out.res.previous_timestamp = last.plain.res.previous_timestamp
              /\ last.out.res.error = last.plain.res.error
        /\ state = last.plain.st
        /\ last.verified => (last.plain.wrote /\ disk = Some(state))

C14_RejectedTimestampStillChanged ==
    /\ last.op = "check_verified" /\ last.verified
    /\ last.out.is_verified.k = "bool" /\ ~last.out.is_verified.v
    /\ last.out.res.changed
    /\ ~IsNone(last.out.res.previous_timestamp)

\* the unknown outcome of a verification
IsUnknown(v) ==
    /\ v.is_verified.k = "null"
    /\ v.confidence = 0
    /\ v.reasoning.k = "str"

\* C15: verify_timestamp never raises, and returns the unknown outcome when the
\* client is unavailable, the service call fails, or the reply is malformed:
\* no JSON object, invalid JSON, a JSON object without is_verified, or a
\* confidence that is not a number
C15_MalformedReplyIsUnknown ==
    last.op = "verify_timestamp" =>
        /\ last.out.exc = "none"
        /\ LET reply == Replies[last.reply] IN
           (\/ ~last.client
            \/ reply.kind \in {"raise", "none", "text", "badjson"}
            \/ "is_verified" \notin DOMAIN reply.obj
            \/ ("confidence" \in DOMAIN reply.obj
                /\ reply.obj["confidence"].k # "num"))
           => IsUnknown(last.out.val)

\* an HTTPHandler fetch whose request was answered before the retries ran out
HTTPAnswered ==
    /\ last.op = "fetch_current_timestamp" /\ last.handler = "http_head"
    /\ last.env.has_url /\ last.env.fails < DefaultMaxRetries

\* the instant of an optional header text: none when absent or unparsable
headerInstant(h) ==
    IF IsNone(h) THEN NoneV
    ELSE IF parsedate_to_datetime(Get(h)).exc = "none" THEN parsedate_to_datetime(Get(h)).val
    ELSE NoneV

C17_RetriesBounded ==
    last.op = "retry" =>
        /\ last.requests <= last.max_retries
        /\ last.requests = (IF last.fails < last.max_retries THEN last.fails + 1
                            ELSE last.max_retries)
        /\ last.fails < last.max_retries => last.out = last.answer
        /\ last.fails >= last.max_retries => (last.out.exc = "none" /\ IsNone(last.out.ts))

C17_SingleAttemptExhausted ==
    /\ last.op = "retry" /\ last.handler = "http_head"
    /\ last.max_retries = 1 /\ last.fails = 2
    /\ last.requests = 1
    /\ last.out.exc = "none" /\ IsNone(last.out.ts)

\* C18: the API fetch requests the configured http_method first; it goes on
\* to another method of GET/HEAD/POST only after a 405 or a failed request;
\* the first method that answers successfully decides the result; none for
\* want of an answer is returned only after all three methods were tried
C18_MethodFallbacks ==
    last.op = "api_methods" =>
        LET tried == last.fetch.tried
            answers == last.env.answers
        IN /\ Len(tried) > 0 /\ tried[1] = last.http_method
           /\ \A i \in 1..(Len(tried) - 1) : answers[tried[i]] # "ok"
           /\ \A i, j \in 1..Len(tried) : tried[i] = tried[j] => i = j
           /\ IF \E m \in HTTPMethods : answers[m] = "ok"
              THEN /\ answers[tried[Len(tried)]] = "ok"
                   /\ last.fetch.out.ts = methodAnswer(tried[Len(tried)], last.env).ts
              ELSE /\ {tried[i] : i \in 1..Len(tried)} = HTTPMethods
                   /\ IsNone(last.fetch.out.ts)

\* C19: for a body without the configured field at the top level and with it
\* in a nested object or in the first element of a list, the search returns
\* the value of that field and the fetch returns the instant it parses to
C19_NestedFieldFound ==
    last.op = "field_search" =>
        /\ last.found.k = last.value.k
        /\ last.found.v = last.value.v
        /\ _parse_timestamp_value(last.value).exc = "none" =>
              /\ last.out.exc = "none"
              /\ last.out.ts = _parse_timestamp_value(last.value).val

\* the instant the header line of the given name yields: none when there is no
\* such line or neither parser reads its value
lineInstant(lines, name) ==
    IF firstLine(lines, name) = 0 THEN NoneV
    ELSE headerLineValue(lines[firstLine(lines, name)].value).ts

\* C20: the CLI handler returns the instant of the last-modified: line,
\* whatever its case and place, when its value parses; without such a line, or
\* when its value does not parse, the instant of the date: line; none only when
\* neither line yields an instant
C20_LastModifiedLineThenDateLine ==
    (/\ last.op = "fetch_current_timestamp" /\ last.handler = "cli"
     /\ last.env.has_url /\ last.env.run = "ok") =>
        /\ last.out.exc = "none"
        /\ last.out.ts = (IF ~IsNone(lineInstant(last.env.stdout, "last-modified"))
                          THEN lineInstant(last.env.stdout, "last-modified")
                          ELSE lineInstant(last.env.stdout, "date"))

\* C21: when the Selenium fetch has returned or propagated, no session is
\* open: a driver that was created has been quit, whether the page gave a
\* timestamp or none, a step timed out, the driver failed or another
\* exception was raised; and the fetch ends as the handler's fetch does
C21_SessionReleased ==
    (last.op = "selenium" /\ last.pc = "done") =>
        /\ last.driver # "open"
        /\ (seleniumTry(last.env).driver = "open" /\ last.env.has_url
                /\ last.env.selenium_installed) => last.driver = "quit"
        /\ last.out = SeleniumFetch(last.env)

C21_QuitAfterForeignException ==
    /\ last.op = "selenium" /\ last.pc = "done"
    /\ last.env.wait = "Exception"
    /\ last.out.exc = "Exception"
    /\ last.driver = "quit"

\* C22: every instant the Selenium fetch returns, from a selector, a text
\* pattern or a JSON-like field, has a year at or above the floor and is not
\* later than the time of the check
C22_CandidatesSanityBounded ==
    (last.op = "page_scan" /\ last.out.exc = "none" /\ ~IsNone(last.out.ts)) =>
        /\ yearOf(Get(last.out.ts)) >= FloorYear
        /\ Get(last.out.ts).t <= last.clock

\* C23: for every template of DATE_FORMATS and every datetime, parsing the
\* text the template writes gives back the month and the day, and the time
\* of day when the template carries one, European day/month texts with a day
\* of 12 or less included
C23_FormatParseRoundTrip ==
    last.op = "round_trip" =>
        /\ ~IsNone(last.out)
        /\ Get(last.out).m = last.dt.m
        /\ Get(last.out).d = last.dt.d
        /\ last.fmt.time => Get(last.out).s = last.dt.s

\* C24: after a check of the HTTP HEAD source whose response carried an ETag
\* and gave a timestamp, the etag stored for the source is that response's
C24_StoredETagOfSameResponse ==
    (/\ last.op = "head_check" /\ last.exc = "none"
     /\ truthyText(last.resp.etag)
     /\ ~IsNone(last.res.current_timestamp)) =>
        /\ ~IsNone(FieldOf(state, "s2", "etag"))
        /\ Get(FieldOf(state, "s2", "etag")).v = Get(last.resp.etag)

\* C25: when the configured primary field occurs in the body with a value,
\* the search returns the value of the primary field, whatever fallback
\* fields the body holds and wherever they stand
C25_PrimaryFieldPreferred ==
    (last.op = "field_search" /\ truthyBody(last.value)) =>
        /\ last.found.k = last.value.k
        /\ last.found.v = last.value.v

\* C26: when two consecutive calls of check_for_updates for one source obtain
\* the same instant T, through the same Sentinel or one constructed anew on
\* the same state file, the second call returns changed = false with
\* previous_timestamp = T
C26_RecheckIdempotent ==
    last.op = "check_run" =>
        \A i \in 1..(Len(last.obs) - 1) :
            (~IsNone(last.obs[i]) /\ last.obs[i + 1] = last.obs[i]) =>
                /\ last.outs[i + 1].exc = "none"
                /\ ~last.outs[i + 1].res.changed
                /\ last.outs[i + 1].res.previous_timestamp = last.obs[i]

\* C30: once a check has reported changed = true for an instant T, no later
\* check that observes an instant not after T reports changed = true,
\* whatever was observed in between
C30_NoRepeatedNotification ==
    last.op = "check_run" =>
        \A i, j \in 1..Len(last.obs) :
            (/\ i < j
             /\ last.outs[i].exc = "none" /\ last.outs[i].res.changed
             /\ ~IsNone(last.obs[j])
             /\ Get(last.obs[j]).tz = Get(last.obs[i]).tz
             /\ Get(last.obs[j]).t <= Get(last.obs[i]).t)
            => ~(last.outs[j].exc = "none" /\ last.outs[j].res.changed)

\* C27, as amended: every CheckResult returned by check_for_updates has, when
\* error is set, changed = false, no current and no previous timestamp, and
\* the check mutated no state; when changed = true, no error, a current
\* timestamp, and a previous one that is none or strictly earlier; and, when
\* no error is set, previous_timestamp is the value stored for the source
\* before this check's own update
C27_ResultCoherent ==
    [][(last'.op = "check" /\ last'.exc = "none") =>
        LET r == last'.res IN
        /\ ~IsNone(r.error) =>
              /\ ~r.changed
              /\ IsNone(r.current_timestamp)
              /\ IsNone(r.previous_timestamp)
              /\ state' = state
              /\ disk' = disk
        /\ r.changed =>
              /\ IsNone(r.error)
              /\ ~IsNone(r.current_timestamp)
              /\ \/ IsNone(r.previous_timestamp)
                 \/ /\ Get(r.previous_timestamp).tz = Get(r.current_timestamp).tz
                    /\ Get(r.previous_timestamp).t < Get(r.current_timestamp).t
        /\ IsNone(r.error) =>
              r.previous_timestamp = get_last_timestamp(state, last'.dcid).val
    ]_vars

\* C27 witness: an error result for a source that has a stored timestamp
C27_ErrorResultOfStoredSource ==
    /\ last.op = "check" /\ last.exc = "none"
    /\ ~IsNone(last.res.error)
    /\ ~IsNone(get_last_timestamp(state, last.dcid).val)

\* C27 as stated: ... and previous_timestamp is always the value stored for
\* the source before this check's own update, error results included
C27_PreviousAlwaysStored ==
    [][(last'.op = "check" /\ last'.exc = "none") =>
        last'.res.previous_timestamp = get_last_timestamp(state, last'.dcid).val
    ]_vars

\* C28: check_for_updates never raises to its caller, whatever the fetch
\* returns and whatever is stored (a naive/aware mismatch included), and so
\* check_all_sources returns, with one result per configured source
C28_CheckNeverRaises ==
    /\ last.op = "check" => last.exc = "none"
    /\ batch.status # "raised"
    /\ batch.status = "done" => Len(batch.results) = Len(list_sources)

\* C29: on a file system that accepts writes, after update_timestamp,
\* clear_state or clear_all returns, the state file holds the in-memory
\* document, so that a StateManager constructed on it gives the same
\* get_last_timestamp for every source; for every state_file path, a bare
\* file name included
C29_DiskMirrorsMemory ==
    (fs # "readonly" /\ last.op \in {"update_timestamp", "clear_state", "clear_all"}
        /\ last.exc = "none") =>
        /\ _load_state(disk) = state
        /\ \A d \in StoreIds :
              get_last_timestamp(_load_state(disk), d) = get_last_timestamp(state, d)

====
